---- MODULE Spec2Model ----
(***************************************************************************)
(* Model of the semantic dispatcher of alacritty_terminal/src/ansi.rs:     *)
(* the Performer that receives the events of the vte byte classifier       *)
(* (print, execute, csi_dispatch, esc_dispatch, osc_dispatch) and turns    *)
(* each of them into calls on the Handler.                                 *)
(*                                                                         *)
(* One call of Processor::advance delivers at most one event.  The Handler *)
(* calls made while that event is dispatched are recorded in `calls`; the  *)
(* record is dropped when advance returns.                                 *)
(***************************************************************************)
EXTENDS Integers, Sequences, FiniteSets, TLC

VARIABLES
    preceding_char,   \* ProcessorState.preceding_char : Option<char>
    event,            \* the vte event dispatched by the running advance
    calls,            \* Handler calls made by the running advance, in order
    lines,            \* value returned by TermInfo::lines()
    io_error,         \* a write of the Handler to the writer failed
    advance_result,   \* how advance ends: "unit", or "panic" when it unwinds
    last_printed,     \* history: the last character handed to print
    color_in,         \* argument of a direct parse_rgb_color call
    color_out,        \* result of that call
    number_in,        \* argument of a direct parse_number call
    number_out,       \* result of that call
    parser,           \* Processor.parser : vte::Parser, the byte classifier
    shadow,           \* a second Processor, fed the bytes that follow an abort
    fed,              \* number of bytes handed to advance
    input_byte,       \* the byte last handed to advance
    config,           \* &Config handed to Display::new and handle_resize
    display,          \* Display: font_size, size_info, last_message
    rx,               \* Display.rx: the resize events queued on the channel
    terminal,         \* Term: font_size and the message of its message buffer
    window_dpr,       \* what Window::hidpi_factor() returns
    frame,            \* the running handle_resize: position and locals
    resize_calls,     \* calls made by the last handle_resize, in order
    last_sent,        \* history: the resize event last sent on the channel
    color_trail,      \* a NamedColor and what to_bright / to_dim made of it
    color_ops         \* the methods called on it, in order

vars == <<preceding_char, event, calls, lines, io_error, advance_result,
          last_printed, color_in, color_out, number_in, number_out,
          parser, shadow, fed, input_byte,
          config, display, rx, terminal, window_dpr, frame, resize_calls,
          last_sent, color_trail, color_ops>>

byte_vars == <<parser, shadow, fed, input_byte>>

display_vars ==
    <<config, display, rx, terminal, window_dpr, frame, resize_calls, last_sent>>

named_vars == <<color_trail, color_ops>>

\* No NamedColor is under conversion.
NoNamedColor ==
    /\ color_trail = <<>>
    /\ color_ops = <<>>

(***************************************************************************)
(* Option<T>: None is the empty sequence, Some(v) the one-element one.     *)
(***************************************************************************)
None == <<>>
Some(v) == <<v>>

(***************************************************************************)
(* Bounds of the model.                                                    *)
(***************************************************************************)
MaxArg == 7          \* CSI parameters of the general commands are 0..MaxArg
MaxParams == 2       \* length of the parameter list of the general commands
MaxModeArgs == 3     \* length of a multi-parameter h / l list
MaxSgrLen == 3       \* length of the unstructured SGR lists
MaxModeNum == 2005   \* single-parameter h / l lists hold 0..MaxModeNum
MaxSgrCode == 108    \* single-parameter SGR lists hold 0..MaxSgrCode
MaxOscData == 2      \* data parts after the code of an OSC
MaxHashLen == 6      \* digits after the '#' of a colour spec
MaxNumLen == 3       \* bytes of an argument of parse_number
MaxBytes == 6        \* bytes of a stream handed to advance
MaxCapBytes == 20    \* bytes of a stream of buffer-filling bytes

(***************************************************************************)
(* C0 / C1 control bytes (mod C0, mod C1).                                 *)
(***************************************************************************)
BEL == 7
BS == 8
HT == 9
LF == 10
VT == 11
FF == 12
CR == 13
SO == 14
SI == 15
SUB == 26
NEL == 133
HTS == 136
DECID == 154
CAN == 24
ESC == 27

Chars == {"A", "z"}
ExecBytes == (0..31) \cup (128..159)
LinesVals == {24, 200}

NoEvent ==
    [kind |-> "none", c |-> "", byte |-> 0, final |-> "", params |-> <<>>,
     intermediates |-> <<>>, ignore |-> FALSE, osc |-> <<>>]

(***************************************************************************)
(* Calls that hand the writer to the Handler.                              *)
(***************************************************************************)
WriterCalls == {"identify_terminal", "device_status", "dynamic_color_sequence"}

UsesWriter(cs) == \E i \in 1..Len(cs) : cs[i][1] \in WriterCalls

(***************************************************************************)
(* Performer::print                                                        *)
(***************************************************************************)
print(c) == << <<"input", c>> >>

(***************************************************************************)
(* Performer::execute                                                      *)
(***************************************************************************)
\* Variant: only LF is a line feed; VT and FF are unhandled.
execute_lf_only(byte) ==
    CASE byte = HT -> << <<"put_tab", 1>> >>
      [] byte = BS -> << <<"backspace">> >>
      [] byte = CR -> << <<"carriage_return">> >>
      [] byte = LF -> << <<"linefeed">> >>
      [] byte = BEL -> << <<"bell">> >>
      [] byte = SUB -> << <<"substitute">> >>
      [] byte = SI -> << <<"set_active_charset", "G0">> >>
      [] byte = SO -> << <<"set_active_charset", "G1">> >>
      [] byte = NEL -> << <<"newline">> >>
      [] byte = HTS -> << <<"set_horizontal_tabstop">> >>
      [] byte = DECID -> << <<"identify_terminal">> >>
      [] OTHER -> <<>>

execute(byte) ==
    CASE byte = HT -> << <<"put_tab", 1>> >>
      [] byte = BS -> << <<"backspace">> >>
      [] byte = CR -> << <<"carriage_return">> >>
      [] byte \in {LF, VT, FF} -> << <<"linefeed">> >>
      [] byte = BEL -> << <<"bell">> >>
      [] byte = SUB -> << <<"substitute">> >>
      [] byte = SI -> << <<"set_active_charset", "G0">> >>
      [] byte = SO -> << <<"set_active_charset", "G1">> >>
      [] byte = NEL -> << <<"newline">> >>
      [] byte = HTS -> << <<"set_horizontal_tabstop">> >>
      [] byte = DECID -> << <<"identify_terminal">> >>
      [] OTHER -> <<>>

(***************************************************************************)
(* csi_dispatch::arg_or_default -- idx is the 0-based index of the source. *)
(***************************************************************************)
\* Variant: the first parameter is read whatever index is asked for.
arg_or_default_first_only(args, idx, default) ==
    IF 1 <= Len(args) /\ args[1] # 0 THEN args[1] ELSE default

\* Variant: a missing parameter reads as zero.
arg_or_default_absent_zero(args, idx, default) ==
    IF idx + 1 <= Len(args)
    THEN (IF args[idx + 1] # 0 THEN args[idx + 1] ELSE default)
    ELSE 0

\* Variant: a zero parameter is passed on as zero.
arg_or_default_zero_kept(args, idx, default) ==
    IF idx + 1 <= Len(args) THEN args[idx + 1] ELSE default

arg_or_default(args, idx, default) ==
    IF idx + 1 <= Len(args) /\ args[idx + 1] # 0 THEN args[idx + 1] ELSE default

(***************************************************************************)
(* Mode::from_primitive                                                    *)
(***************************************************************************)
PrivateModes ==
    [n \in {1, 3, 6, 7, 12, 25, 1000, 1002, 1003, 1004, 1006, 1049, 2004} |->
        CASE n = 1 -> "CursorKeys"
          [] n = 3 -> "DECCOLM"
          [] n = 6 -> "Origin"
          [] n = 7 -> "LineWrap"
          [] n = 12 -> "BlinkingCursor"
          [] n = 25 -> "ShowCursor"
          [] n = 1000 -> "ReportMouseClicks"
          [] n = 1002 -> "ReportCellMouseMotion"
          [] n = 1003 -> "ReportAllMouseMotion"
          [] n = 1004 -> "ReportFocusInOut"
          [] n = 1006 -> "SgrMouse"
          [] n = 1049 -> "SwapScreenAndSetRestoreCursor"
          [] n = 2004 -> "BracketedPaste"]

PublicModes ==
    [n \in {4, 20} |-> IF n = 4 THEN "Insert" ELSE "LineFeedNewLine"]

from_primitive(private, num) ==
    IF private
    THEN IF num \in DOMAIN PrivateModes THEN Some(PrivateModes[num]) ELSE None
    ELSE IF num \in DOMAIN PublicModes THEN Some(PublicModes[num]) ELSE None

(***************************************************************************)
(* The loop of the h and l arms of csi_dispatch: one set_mode / unset_mode *)
(* per argument, and the whole dispatch returns at the first argument that *)
(* from_primitive does not know.                                           *)
(***************************************************************************)
RECURSIVE mode_loop(_, _, _, _)
mode_loop(op, is_private_mode, args, k) ==
    IF k > Len(args) THEN <<>>
    ELSE LET mode == from_primitive(is_private_mode, args[k])
         IN  IF mode = None THEN <<>>
             ELSE << <<op, mode[1]>> >> \o mode_loop(op, is_private_mode, args, k + 1)

(***************************************************************************)
(* parse_color: attrs is the parameter list from the 38 / 48 on, i the     *)
(* caller's `start` (0).  The result carries the colour and the value of   *)
(* *i on return.                                                           *)
(***************************************************************************)
\* Variant: an RGB colour moves the index on by 3, leaving b to be decoded.
parse_color_short_skip(attrs, i) ==
    IF Len(attrs) < 2 THEN [color |-> None, i |-> i]
    ELSE CASE attrs[i + 2] = 2 ->
                IF Len(attrs) < 5 THEN [color |-> None, i |-> i]
                ELSE LET r == attrs[i + 3]
                         g == attrs[i + 4]
                         b == attrs[i + 5]
                     IN  IF ~(r \in 0..255) \/ ~(g \in 0..255) \/ ~(b \in 0..255)
                         THEN [color |-> None, i |-> i + 3]
                         ELSE [color |-> Some(<<"Spec", r, g, b>>), i |-> i + 3]
           [] attrs[i + 2] = 5 ->
                IF Len(attrs) < 3 THEN [color |-> None, i |-> i]
                ELSE LET idx == attrs[i + 3]
                     IN  IF idx \in 0..255
                         THEN [color |-> Some(<<"Indexed", idx>>), i |-> i + 2]
                         ELSE [color |-> None, i |-> i + 2]
           [] OTHER -> [color |-> None, i |-> i]

parse_color(attrs, i) ==
    IF Len(attrs) < 2 THEN [color |-> None, i |-> i]
    ELSE CASE attrs[i + 2] = 2 ->
                IF Len(attrs) < 5 THEN [color |-> None, i |-> i]
                ELSE LET r == attrs[i + 3]
                         g == attrs[i + 4]
                         b == attrs[i + 5]
                     IN  IF ~(r \in 0..255) \/ ~(g \in 0..255) \/ ~(b \in 0..255)
                         THEN [color |-> None, i |-> i + 4]
                         ELSE [color |-> Some(<<"Spec", r, g, b>>), i |-> i + 4]
           [] attrs[i + 2] = 5 ->
                IF Len(attrs) < 3 THEN [color |-> None, i |-> i]
                ELSE LET idx == attrs[i + 3]
                     IN  IF idx \in 0..255
                         THEN [color |-> Some(<<"Indexed", idx>>), i |-> i + 2]
                         ELSE [color |-> None, i |-> i + 2]
           [] OTHER -> [color |-> None, i |-> i]

(***************************************************************************)
(* The arms of attrs_from_sgr_parameters that do not read sub-parameters.  *)
(***************************************************************************)
ColorNames ==
    <<"Black", "Red", "Green", "Yellow", "Blue", "Magenta", "Cyan", "White">>

SimpleSgrCodes ==
    (0..9) \cup (21..25) \cup (27..29) \cup (30..37) \cup {39} \cup (40..47)
    \cup {49} \cup (90..97) \cup (100..107)

\* Variant: the bright colours 90..97 and 100..107 decode as the normal ones.
sgr_simple_bright_as_normal(code) ==
    CASE code = 0 -> <<"Reset">>
      [] code = 1 -> <<"Bold">>
      [] code = 2 -> <<"Dim">>
      [] code = 3 -> <<"Italic">>
      [] code = 4 -> <<"Underscore">>
      [] code = 5 -> <<"BlinkSlow">>
      [] code = 6 -> <<"BlinkFast">>
      [] code = 7 -> <<"Reverse">>
      [] code = 8 -> <<"Hidden">>
      [] code = 9 -> <<"Strike">>
      [] code = 21 -> <<"CancelBold">>
      [] code = 22 -> <<"CancelBoldDim">>
      [] code = 23 -> <<"CancelItalic">>
      [] code = 24 -> <<"CancelUnderline">>
      [] code = 25 -> <<"CancelBlink">>
      [] code = 27 -> <<"CancelReverse">>
      [] code = 28 -> <<"CancelHidden">>
      [] code = 29 -> <<"CancelStrike">>
      [] code \in 30..37 -> <<"Foreground", <<"Named", ColorNames[code - 29]>>>>
      [] code = 39 -> <<"Foreground", <<"Named", "Foreground">>>>
      [] code \in 40..47 -> <<"Background", <<"Named", ColorNames[code - 39]>>>>
      [] code = 49 -> <<"Background", <<"Named", "Background">>>>
      [] code \in 90..97 -> <<"Foreground", <<"Named", ColorNames[code - 89]>>>>
      [] code \in 100..107 -> <<"Background", <<"Named", ColorNames[code - 99]>>>>

sgr_simple(code) ==
    CASE code = 0 -> <<"Reset">>
      [] code = 1 -> <<"Bold">>
      [] code = 2 -> <<"Dim">>
      [] code = 3 -> <<"Italic">>
      [] code = 4 -> <<"Underscore">>
      [] code = 5 -> <<"BlinkSlow">>
      [] code = 6 -> <<"BlinkFast">>
      [] code = 7 -> <<"Reverse">>
      [] code = 8 -> <<"Hidden">>
      [] code = 9 -> <<"Strike">>
      [] code = 21 -> <<"CancelBold">>
      [] code = 22 -> <<"CancelBoldDim">>
      [] code = 23 -> <<"CancelItalic">>
      [] code = 24 -> <<"CancelUnderline">>
      [] code = 25 -> <<"CancelBlink">>
      [] code = 27 -> <<"CancelReverse">>
      [] code = 28 -> <<"CancelHidden">>
      [] code = 29 -> <<"CancelStrike">>
      [] code \in 30..37 -> <<"Foreground", <<"Named", ColorNames[code - 29]>>>>
      [] code = 39 -> <<"Foreground", <<"Named", "Foreground">>>>
      [] code \in 40..47 -> <<"Background", <<"Named", ColorNames[code - 39]>>>>
      [] code = 49 -> <<"Background", <<"Named", "Background">>>>
      [] code \in 90..97 ->
            <<"Foreground", <<"Named", "Bright" \o ColorNames[code - 89]>>>>
      [] code \in 100..107 ->
            <<"Background", <<"Named", "Bright" \o ColorNames[code - 99]>>>>

(***************************************************************************)
(* attrs_from_sgr_parameters: the C-style loop over i (0-based).  The      *)
(* sub-parameters of a 38 / 48 are skipped only when parse_color returned  *)
(* a colour.                                                               *)
(***************************************************************************)
RECURSIVE attrs_from_sgr_loop(_, _)
attrs_from_sgr_loop(parameters, i) ==
    IF i >= Len(parameters) THEN <<>>
    ELSE LET code == parameters[i + 1]
         IN  IF code \in {38, 48}
             THEN LET pc == parse_color(SubSeq(parameters, i + 1, Len(parameters)), 0)
                      ground == IF code = 38 THEN "Foreground" ELSE "Background"
                  IN  IF pc.color # None
                      THEN << Some(<<ground, pc.color[1]>>) >>
                           \o attrs_from_sgr_loop(parameters, i + pc.i + 1)
                      ELSE << None >> \o attrs_from_sgr_loop(parameters, i + 1)
             ELSE IF code \in SimpleSgrCodes
             THEN << Some(sgr_simple(code)) >> \o attrs_from_sgr_loop(parameters, i + 1)
             ELSE << None >> \o attrs_from_sgr_loop(parameters, i + 1)

attrs_from_sgr_parameters(parameters) == attrs_from_sgr_loop(parameters, 0)

(***************************************************************************)
(* The loop of the m arm of csi_dispatch: one terminal_attribute per       *)
(* decoded attribute, and the whole dispatch returns at the first None.    *)
(***************************************************************************)
RECURSIVE sgr_deliver(_, _)
sgr_deliver(attrs, k) ==
    IF k > Len(attrs) THEN <<>>
    ELSE IF attrs[k] = None THEN <<>>
    ELSE << <<"terminal_attribute", attrs[k][1]>> >> \o sgr_deliver(attrs, k + 1)

(***************************************************************************)
(* The b arm of csi_dispatch (REP).                                        *)
(***************************************************************************)
\* Variant: the range 0..=n instead of 0..n.
repeat_preceding_inclusive(pc, n) ==
    IF pc # None THEN [k \in 1..(n + 1) |-> <<"input", pc[1]>>] ELSE <<>>

repeat_preceding(pc, n) ==
    IF pc # None THEN [k \in 1..n |-> <<"input", pc[1]>>] ELSE <<>>

\* The final byte 0x60 (grave accent), which has no string literal here.
Grave == "0x60"

(***************************************************************************)
(* The r arm of csi_dispatch (DECSTBM): the range top..bottom is carried   *)
(* as its two ends.                                                        *)
(***************************************************************************)
\* Variant: the bottom defaults to 24 lines whatever TermInfo reports.
scrolling_region_fixed_lines(args) ==
    LET arg0 == arg_or_default(args, 0, 1)
        arg1 == arg_or_default(args, 1, 24)
    IN  << <<"set_scrolling_region", arg0 - 1, arg1>> >>

scrolling_region(args) ==
    LET arg0 == arg_or_default(args, 0, 1)
        arg1 == arg_or_default(args, 1, lines)
    IN  << <<"set_scrolling_region", arg0 - 1, arg1>> >>

\* The inner matches of the g, J and K arms on the first parameter.
\* Variant: J has no Saved mode, K and g take any other value as All.
clear_mode_lenient(action, mode) ==
    CASE action = "g" ->
            CASE mode = 0 -> << <<"clear_tabs", "Current">> >>
              [] OTHER -> << <<"clear_tabs", "All">> >>
      [] action = "J" ->
            CASE mode = 0 -> << <<"clear_screen", "Below">> >>
              [] mode = 1 -> << <<"clear_screen", "Above">> >>
              [] mode = 2 -> << <<"clear_screen", "All">> >>
              [] OTHER -> <<>>
      [] action = "K" ->
            CASE mode = 0 -> << <<"clear_line", "Right">> >>
              [] mode = 1 -> << <<"clear_line", "Left">> >>
              [] OTHER -> << <<"clear_line", "All">> >>
      [] OTHER -> <<>>

clear_mode(action, mode) ==
    CASE action = "g" ->
            CASE mode = 0 -> << <<"clear_tabs", "Current">> >>
              [] mode = 3 -> << <<"clear_tabs", "All">> >>
              [] OTHER -> <<>>
      [] action = "J" ->
            CASE mode = 0 -> << <<"clear_screen", "Below">> >>
              [] mode = 1 -> << <<"clear_screen", "Above">> >>
              [] mode = 2 -> << <<"clear_screen", "All">> >>
              [] mode = 3 -> << <<"clear_screen", "Saved">> >>
              [] OTHER -> <<>>
      [] action = "K" ->
            CASE mode = 0 -> << <<"clear_line", "Right">> >>
              [] mode = 1 -> << <<"clear_line", "Left">> >>
              [] mode = 2 -> << <<"clear_line", "All">> >>
              [] OTHER -> <<>>
      [] OTHER -> <<>>

\* The inner match of the q arm (DECSCUSR) on the first parameter.
\* Variant: only the odd values select a shape.
cursor_style_odd_only(style) ==
    CASE style = 0 -> << <<"set_cursor_style", None>> >>
      [] style = 1 -> << <<"set_cursor_style", Some("Block")>> >>
      [] style = 3 -> << <<"set_cursor_style", Some("Underline")>> >>
      [] style = 5 -> << <<"set_cursor_style", Some("Beam")>> >>
      [] OTHER -> <<>>

cursor_style(style) ==
    CASE style = 0 -> << <<"set_cursor_style", None>> >>
      [] style \in {1, 2} -> << <<"set_cursor_style", Some("Block")>> >>
      [] style \in {3, 4} -> << <<"set_cursor_style", Some("Underline")>> >>
      [] style \in {5, 6} -> << <<"set_cursor_style", Some("Beam")>> >>
      [] OTHER -> <<>>

(***************************************************************************)
(* Performer::csi_dispatch: the Handler calls it makes, in order.  It      *)
(* reads preceding_char (b) and TermInfo::lines (r) and writes no state.   *)
(* csi_dispatch_arms is the match on (action, intermediates.get(0)) that   *)
(* follows the check of the ignored flag and of the intermediate count;    *)
(* state_preceding_char is self._state.preceding_char.                     *)
(***************************************************************************)
csi_dispatch_arms(state_preceding_char, args, intermediates, action) ==
    LET none == intermediates = <<>>
        a0 == arg_or_default(args, 0, 1)
        z0 == arg_or_default(args, 0, 0)
        one(op) == << <<op, a0>> >>
    IN
    CASE action = "@" /\ none -> one("insert_blank")
      [] action = "A" /\ none -> one("move_up")
      [] action = "b" /\ none -> repeat_preceding(state_preceding_char, a0)
      [] action \in {"B", "e"} /\ none -> one("move_down")
      [] action = "c" /\ none -> << <<"identify_terminal">> >>
      [] action \in {"C", "a"} /\ none -> one("move_forward")
      [] action = "D" /\ none -> one("move_backward")
      [] action = "E" /\ none -> one("move_down_and_cr")
      [] action = "F" /\ none -> one("move_up_and_cr")
      [] action = "g" /\ none -> clear_mode(action, z0)
      [] action \in {"G", Grave} /\ none -> << <<"goto_col", a0 - 1>> >>
      [] action \in {"H", "f"} /\ none ->
            LET y == arg_or_default(args, 0, 1)
                x == arg_or_default(args, 1, 1)
            IN  << <<"goto", y - 1, x - 1>> >>
      [] action = "I" /\ none -> one("move_forward_tabs")
      [] action \in {"J", "K"} /\ none -> clear_mode(action, z0)
      [] action = "S" /\ none -> one("scroll_up")
      [] action = "T" /\ none -> one("scroll_down")
      [] action = "L" /\ none -> one("insert_blank_lines")
      [] action = "l" ->
            IF none \/ intermediates = <<"?">>
            THEN mode_loop("unset_mode", ~none, args, 1)
            ELSE <<>>
      [] action = "M" /\ none -> one("delete_lines")
      [] action = "X" /\ none -> one("erase_chars")
      [] action = "P" /\ none -> one("delete_chars")
      [] action = "Z" /\ none -> one("move_backward_tabs")
      [] action = "d" /\ none -> << <<"goto_line", a0 - 1>> >>
      [] action = "h" ->
            IF none \/ intermediates = <<"?">>
            THEN mode_loop("set_mode", ~none, args, 1)
            ELSE <<>>
      [] action = "m" /\ none ->
            IF args = <<>>
            THEN << <<"terminal_attribute", <<"Reset">>>> >>
            ELSE sgr_deliver(attrs_from_sgr_parameters(args), 1)
      [] action = "n" /\ none -> << <<"device_status", z0>> >>
      [] action = "q" /\ intermediates # <<>> /\ intermediates[1] = " " ->
            cursor_style(z0)
      [] action = "r" /\ none -> scrolling_region(args)
      [] action = "s" /\ none -> << <<"save_cursor_position">> >>
      [] action = "u" /\ none -> << <<"restore_cursor_position">> >>
      [] OTHER -> <<>>

\* csi_dispatch of a Performer whose ProcessorState holds state_preceding_char.
csi_dispatch_for(state_preceding_char, args, intermediates, ignored, action) ==
    IF ignored \/ Len(intermediates) > 1 THEN <<>>
    ELSE csi_dispatch_arms(state_preceding_char, args, intermediates, action)

\* Variant: the ignored flag is not looked at.
csi_dispatch_ignored_unchecked(args, intermediates, has_ignored_intermediates, action) ==
    IF Len(intermediates) > 1 THEN <<>>
    ELSE csi_dispatch_arms(preceding_char, args, intermediates, action)

csi_dispatch(args, intermediates, has_ignored_intermediates, action) ==
    csi_dispatch_for(preceding_char, args, intermediates,
                     has_ignored_intermediates, action)

(***************************************************************************)
(* Performer::esc_dispatch.  The ignore flag is not read.                  *)
(***************************************************************************)
\* Variant: the last intermediate selects the slot.
configure_charset_by_last(intermediates, charset) ==
    LET last == IF intermediates = <<>> THEN None
                ELSE Some(intermediates[Len(intermediates)])
    IN  CASE last = Some("(") -> << <<"configure_charset", "G0", charset>> >>
          [] last = Some(")") -> << <<"configure_charset", "G1", charset>> >>
          [] last = Some("*") -> << <<"configure_charset", "G2", charset>> >>
          [] last = Some("+") -> << <<"configure_charset", "G3", charset>> >>
          [] OTHER -> <<>>

configure_charset(intermediates, charset) ==
    LET first == IF intermediates = <<>> THEN None ELSE Some(intermediates[1])
    IN  CASE first = Some("(") -> << <<"configure_charset", "G0", charset>> >>
          [] first = Some(")") -> << <<"configure_charset", "G1", charset>> >>
          [] first = Some("*") -> << <<"configure_charset", "G2", charset>> >>
          [] first = Some("+") -> << <<"configure_charset", "G3", charset>> >>
          [] OTHER -> <<>>

\* Variant: E returns the carriage before feeding the line, and 8 looks for
\* '#' at any position.
esc_dispatch_swapped(intermediates, ignore, byte) ==
    CASE byte = "B" -> configure_charset(intermediates, "Ascii")
      [] byte = "D" -> << <<"linefeed">> >>
      [] byte = "E" -> << <<"carriage_return">>, <<"linefeed">> >>
      [] byte = "H" -> << <<"set_horizontal_tabstop">> >>
      [] byte = "M" -> << <<"reverse_index">> >>
      [] byte = "Z" -> << <<"identify_terminal">> >>
      [] byte = "c" -> << <<"reset_state">> >>
      [] byte = "0" -> configure_charset(intermediates, "SpecialCharacterAndLineDrawing")
      [] byte = "7" -> << <<"save_cursor_position">> >>
      [] byte = "8" ->
            IF \E k \in 1..Len(intermediates) : intermediates[k] = "#"
            THEN << <<"dectest">> >>
            ELSE << <<"restore_cursor_position">> >>
      [] byte = "=" -> << <<"set_keypad_application_mode">> >>
      [] byte = ">" -> << <<"unset_keypad_application_mode">> >>
      [] byte = "\\" -> <<>>
      [] OTHER -> <<>>

esc_dispatch(intermediates, ignore, byte) ==
    CASE byte = "B" -> configure_charset(intermediates, "Ascii")
      [] byte = "D" -> << <<"linefeed">> >>
      [] byte = "E" -> << <<"linefeed">>, <<"carriage_return">> >>
      [] byte = "H" -> << <<"set_horizontal_tabstop">> >>
      [] byte = "M" -> << <<"reverse_index">> >>
      [] byte = "Z" -> << <<"identify_terminal">> >>
      [] byte = "c" -> << <<"reset_state">> >>
      [] byte = "0" -> configure_charset(intermediates, "SpecialCharacterAndLineDrawing")
      [] byte = "7" -> << <<"save_cursor_position">> >>
      [] byte = "8" ->
            IF intermediates # <<>> /\ intermediates[1] = "#"
            THEN << <<"dectest">> >>
            ELSE << <<"restore_cursor_position">> >>
      [] byte = "=" -> << <<"set_keypad_application_mode">> >>
      [] byte = ">" -> << <<"unset_keypad_application_mode">> >>
      [] byte = "\\" -> <<>>
      [] OTHER -> <<>>

(***************************************************************************)
(* Byte strings (&[u8]) are sequences of one-character strings.            *)
(* char::to_digit(radix) for the radices the source uses, 10 and 16.       *)
(***************************************************************************)
DigitValue ==
    [c \in {"0", "1", "2", "3", "4", "5", "6", "7", "8", "9",
            "a", "b", "c", "d", "e", "f", "A", "B", "C", "D", "E", "F"} |->
        CASE c = "0" -> 0 [] c = "1" -> 1 [] c = "2" -> 2 [] c = "3" -> 3
          [] c = "4" -> 4 [] c = "5" -> 5 [] c = "6" -> 6 [] c = "7" -> 7
          [] c = "8" -> 8 [] c = "9" -> 9
          [] c \in {"a", "A"} -> 10 [] c \in {"b", "B"} -> 11
          [] c \in {"c", "C"} -> 12 [] c \in {"d", "D"} -> 13
          [] c \in {"e", "E"} -> 14 [] c \in {"f", "F"} -> 15]

to_digit(c, radix) ==
    IF c \in DOMAIN DigitValue /\ DigitValue[c] < radix
    THEN Some(DigitValue[c]) ELSE None

(***************************************************************************)
(* parse_rgb_color.  pos is the number of bytes the iterator has handed    *)
(* out; next! yields the byte at pos (None at the end) and moves on.       *)
(***************************************************************************)
iter_next(color, pos) == IF pos < Len(color) THEN Some(color[pos + 1]) ELSE None

iter_advance(color, pos) == IF pos < Len(color) THEN pos + 1 ELSE pos

\* parse_hex!: two next! calls, whatever they yield; u8 arithmetic.
parse_hex(color, pos) ==
    LET n1 == iter_next(color, pos)
        d1 == IF n1 = None THEN None ELSE to_digit(n1[1], 16)
        digit1 == IF d1 # None THEN d1[1] ELSE 0
        pos1 == iter_advance(color, pos)
        n2 == iter_next(color, pos1)
        d2 == IF n2 = None THEN None ELSE to_digit(n2[1], 16)
        digit2 == IF d2 # None THEN (((digit1 * 16) % 256) + d2[1]) % 256 ELSE digit1
    IN  [digit |-> digit2, pos |-> iter_advance(color, pos1)]

parse_rgb_color(color) ==
    LET first == iter_next(color, 0)
    IN  CASE first = Some("r") ->
                IF iter_next(color, 1) # Some("g") THEN None
                ELSE IF iter_next(color, 2) # Some("b") THEN None
                ELSE IF iter_next(color, 3) # Some(":") THEN None
                ELSE LET r == parse_hex(color, 4)
                         g == parse_hex(color, iter_advance(color, r.pos))
                         b == parse_hex(color, iter_advance(color, g.pos))
                     IN  IF iter_next(color, r.pos) # Some("/") THEN None
                         ELSE IF iter_next(color, g.pos) # Some("/") THEN None
                         ELSE Some(<<r.digit, g.digit, b.digit>>)
          [] first = Some("#") ->
                LET r == parse_hex(color, 1)
                    g == parse_hex(color, r.pos)
                    b == parse_hex(color, g.pos)
                IN  Some(<<r.digit, g.digit, b.digit>>)
          [] OTHER -> None

(***************************************************************************)
(* parse_number: u8 accumulator with checked_mul / checked_add.            *)
(***************************************************************************)
\* Variant: wrapping u8 arithmetic in place of the checked one.
RECURSIVE parse_number_loop_wrapping(_, _, _)
parse_number_loop_wrapping(input, k, num) ==
    IF k > Len(input) THEN Some(num)
    ELSE LET digit == to_digit(input[k], 10)
         IN  IF digit = None THEN None
             ELSE parse_number_loop_wrapping(input, k + 1, (num * 10 + digit[1]) % 256)

RECURSIVE parse_number_loop(_, _, _)
parse_number_loop(input, k, num) ==
    IF k > Len(input) THEN Some(num)
    ELSE LET digit == to_digit(input[k], 10)
         IN  IF digit = None THEN None
             ELSE IF num * 10 > 255 THEN None
             ELSE IF num * 10 + digit[1] > 255 THEN None
             ELSE parse_number_loop(input, k + 1, num * 10 + digit[1])

parse_number(input) ==
    IF input = <<>> THEN None ELSE parse_number_loop(input, 1, 0)

(***************************************************************************)
(* str::from_utf8 succeeds unless the part holds a byte that no UTF-8      *)
(* text holds; such a byte is written InvalidByte.                         *)
(***************************************************************************)
InvalidByte == "0xFF"

from_utf8_ok(bytes) == \A k \in 1..Len(bytes) : bytes[k] # InvalidByte

(***************************************************************************)
(* NamedColor discriminants used as colour indices.                        *)
(***************************************************************************)
NamedColor_Foreground == 256
NamedColor_Background == 257
NamedColor_Cursor == 258

(***************************************************************************)
(* osc_dispatch, b"4": the loop over the (index, colour) chunks.  The      *)
(* first chunk that parses is set and osc_dispatch returns.                *)
(***************************************************************************)
\* Variant: only the first chunk is tried.
set_color_chunks_first_only(params, k) ==
    IF k + 1 > Len(params) THEN <<>>
    ELSE LET index == parse_number(params[k])
             color == parse_rgb_color(params[k + 1])
         IN  IF index # None /\ color # None
             THEN << <<"set_color", index[1], color[1]>> >>
             ELSE <<>>

RECURSIVE set_color_chunks(_, _)
set_color_chunks(params, k) ==
    IF k + 1 > Len(params) THEN <<>>
    ELSE LET index == parse_number(params[k])
             color == parse_rgb_color(params[k + 1])
         IN  IF index # None /\ color # None
             THEN << <<"set_color", index[1], color[1]>> >>
             ELSE set_color_chunks(params, k + 2)

osc_set_color_index(params) ==
    IF Len(params) > 1 /\ Len(params) % 2 # 0
    THEN set_color_chunks(params, 2)
    ELSE <<>>

(***************************************************************************)
(* osc_dispatch, b"10" | b"11" | b"12": the loop over the data parts.      *)
(***************************************************************************)
\* Variant: a part that is neither a colour nor '?' does not advance the code.
RECURSIVE dynamic_color_loop_stalling(_, _, _)
dynamic_color_loop_stalling(params, k, dynamic_code) ==
    IF k > Len(params) THEN <<>>
    ELSE LET offset == dynamic_code - 10
             index == NamedColor_Foreground + offset
             color == parse_rgb_color(params[k])
             rest == dynamic_color_loop_stalling(params, k + 1, (dynamic_code + 1) % 256)
         IN  IF index > NamedColor_Cursor THEN <<>>
             ELSE IF color # None
             THEN << <<"set_color", index, color[1]>> >> \o rest
             ELSE IF params[k] = <<"?">>
             THEN << <<"dynamic_color_sequence", dynamic_code, index>> >> \o rest
             ELSE dynamic_color_loop_stalling(params, k + 1, dynamic_code)

RECURSIVE dynamic_color_loop(_, _, _)
dynamic_color_loop(params, k, dynamic_code) ==
    IF k > Len(params) THEN <<>>
    ELSE LET offset == dynamic_code - 10
             index == NamedColor_Foreground + offset
             color == parse_rgb_color(params[k])
             rest == dynamic_color_loop(params, k + 1, (dynamic_code + 1) % 256)
         IN  IF index > NamedColor_Cursor THEN <<>>
             ELSE IF color # None
             THEN << <<"set_color", index, color[1]>> >> \o rest
             ELSE IF params[k] = <<"?">>
             THEN << <<"dynamic_color_sequence", dynamic_code, index>> >> \o rest
             ELSE rest

(***************************************************************************)
(* osc_dispatch, b"104" with parameters.                                   *)
(***************************************************************************)
\* Variant: the first part that is not a number ends the loop.
RECURSIVE reset_color_loop_stopping(_, _)
reset_color_loop_stopping(params, k) ==
    IF k > Len(params) THEN <<>>
    ELSE LET index == parse_number(params[k])
         IN  IF index # None
             THEN << <<"reset_color", index[1]>> >>
                  \o reset_color_loop_stopping(params, k + 1)
             ELSE <<>>

RECURSIVE reset_color_loop(_, _)
reset_color_loop(params, k) ==
    IF k > Len(params) THEN <<>>
    ELSE LET index == parse_number(params[k])
         IN  (IF index # None THEN << <<"reset_color", index[1]>> >> ELSE <<>>)
             \o reset_color_loop(params, k + 1)

(***************************************************************************)
(* base64::decode, for the payloads the model feeds: the empty text is the *)
(* empty string, "aGk=" is "hi", "/w==" is the single byte 0xFF.  Every    *)
(* other payload fed is refused, or (unpadded text such as "red") decodes  *)
(* at best to bytes that are not UTF-8, which osc_dispatch drops as well.  *)
(***************************************************************************)
B64_hi == <<"a", "G", "k", "=">>
B64_ff == <<"/", "w", "=", "=">>

base64_decode(selection) ==
    CASE selection = <<>> -> Some(<<>>)
      [] selection = B64_hi -> Some(<<"h", "i">>)
      [] selection = B64_ff -> Some(<<InvalidByte>>)
      [] OTHER -> None

CursorShapePrefix == <<"C", "u", "r", "s", "o", "r", "S", "h", "a", "p", "e", "=">>

(***************************************************************************)
(* osc_dispatch, b"0" | b"2": set the window title.                        *)
(***************************************************************************)
\* Variant: the title is passed on without the UTF-8 check.
osc_set_title_unchecked(params) ==
    IF Len(params) >= 2 THEN << <<"set_title", params[2]>> >> ELSE <<>>

osc_set_title(params) ==
    IF Len(params) >= 2 /\ from_utf8_ok(params[2])
    THEN << <<"set_title", params[2]>> >>
    ELSE <<>>

(***************************************************************************)
(* osc_dispatch, b"50": set the cursor style.                              *)
(***************************************************************************)
\* Variant: the byte after the prefix is taken from the end of the part.
osc_set_cursor_shape_by_last(params) ==
    IF /\ Len(params) >= 2
       /\ Len(params[2]) >= 13
       /\ SubSeq(params[2], 1, 12) = CursorShapePrefix
    THEN LET n == params[2][Len(params[2])]
         IN  CASE n = "0" -> << <<"set_cursor_style", Some("Block")>> >>
               [] n = "1" -> << <<"set_cursor_style", Some("Beam")>> >>
               [] n = "2" -> << <<"set_cursor_style", Some("Underline")>> >>
               [] OTHER -> <<>>
    ELSE <<>>

osc_set_cursor_shape(params) ==
    IF /\ Len(params) >= 2
       /\ Len(params[2]) >= 13
       /\ SubSeq(params[2], 1, 12) = CursorShapePrefix
    THEN CASE params[2][13] = "0" -> << <<"set_cursor_style", Some("Block")>> >>
           [] params[2][13] = "1" -> << <<"set_cursor_style", Some("Beam")>> >>
           [] params[2][13] = "2" -> << <<"set_cursor_style", Some("Underline")>> >>
           [] OTHER -> <<>>
    ELSE <<>>

(***************************************************************************)
(* osc_dispatch, b"52": set the clipboard.                                 *)
(***************************************************************************)
\* Variant: the decoded bytes are passed on without the UTF-8 check.
osc_set_clipboard_unchecked(params) ==
    IF Len(params) < 3 THEN <<>>
    ELSE IF params[3] = <<"?">> THEN <<>>
    ELSE LET string == base64_decode(params[3])
         IN  IF string # None
             THEN << <<"set_clipboard", string[1]>> >>
             ELSE <<>>

osc_set_clipboard(params) ==
    IF Len(params) < 3 THEN <<>>
    ELSE IF params[3] = <<"?">> THEN <<>>
    ELSE LET string == base64_decode(params[3])
         IN  IF string # None /\ from_utf8_ok(string[1])
             THEN << <<"set_clipboard", string[1]>> >>
             ELSE <<>>

(***************************************************************************)
(* Performer::osc_dispatch                                                 *)
(***************************************************************************)
osc_dispatch(params) ==
    IF params = <<>> THEN <<>>
    ELSE IF params[1] = <<>> THEN <<>>
    ELSE
    LET code == params[1]
    IN
    CASE code \in {<<"0">>, <<"2">>} -> osc_set_title(params)
      [] code = <<"1">> -> <<>>
      [] code = <<"4">> -> osc_set_color_index(params)
      [] code \in {<<"1", "0">>, <<"1", "1">>, <<"1", "2">>} ->
            IF Len(params) >= 2 /\ parse_number(code) # None
            THEN dynamic_color_loop(params, 2, parse_number(code)[1])
            ELSE <<>>
      [] code = <<"5", "0">> -> osc_set_cursor_shape(params)
      [] code = <<"5", "2">> -> osc_set_clipboard(params)
      [] code = <<"1", "0", "4">> ->
            IF Len(params) = 1
            THEN [k \in 1..256 |-> <<"reset_color", k - 1>>]
            ELSE reset_color_loop(params, 2)
      [] code = <<"1", "1", "0">> -> << <<"reset_color", NamedColor_Foreground>> >>
      [] code = <<"1", "1", "1">> -> << <<"reset_color", NamedColor_Background>> >>
      [] code = <<"1", "1", "2">> -> << <<"reset_color", NamedColor_Cursor>> >>
      [] OTHER -> <<>>

(***************************************************************************)
(* The events the byte classifier can deliver, drawn from bounded sets.    *)
(***************************************************************************)
SeqsUpTo(S, n) == UNION {[1..k -> S] : k \in 0..n}

\* Final bytes 0x40..0x7E.
CsiFinals ==
    {"@", "A", "B", "C", "D", "E", "F", "G", "H", "I", "J", "K", "L", "M",
     "N", "O", "P", "Q", "R", "S", "T", "U", "V", "W", "X", "Y", "Z",
     "[", "\\", "]", "^", "_", Grave,
     "a", "b", "c", "d", "e", "f", "g", "h", "i", "j", "k", "l", "m",
     "n", "o", "p", "q", "r", "s", "t", "u", "v", "w", "x", "y", "z",
     "{", "|", "}", "~"}

\* Final bytes 0x30..0x7E.
EscFinals ==
    CsiFinals \cup {"0", "1", "2", "3", "4", "5", "6", "7", "8", "9",
                    ":", ";", "<", "=", ">", "?"}

CsiIntermediates == SeqsUpTo({"?", " ", "!"}, 2)
EscIntermediates == SeqsUpTo({"(", ")", "*", "+", "#", " "}, 2)

ModeVals == {1, 4, 25, 5}
SgrVals == {0, 1, 2, 5, 38, 48, 99, 256}
CompVals == {0, 128, 255, 256}
SgrAround == {<<>>, <<1>>, <<4>>}

ColorBodies ==
    {<<2, r, g, b>> : r \in CompVals, g \in CompVals, b \in CompVals}
    \cup {<<5, n>> : n \in CompVals}

ExtendedSgrLists ==
    {pre \o <<k>> \o body \o post :
        pre \in SgrAround, k \in {38, 48}, body \in ColorBodies, post \in SgrAround}

\* Parameter lists <<args, intermediates, ignored, action>> of csi_dispatch:
\* every final with a plain parameter list,
CsiPlainInputs ==
    {<<args, <<>>, FALSE, action>> :
        args \in SeqsUpTo(0..MaxArg, MaxParams), action \in CsiFinals}

\* every final with intermediates and with the ignored flag,
CsiMarkedInputs ==
    {<<args, ims, ign, action>> :
        args \in SeqsUpTo(0..MaxArg, 1), ims \in CsiIntermediates,
        ign \in BOOLEAN, action \in CsiFinals}

\* h and l with every mode number, and with short lists of mode numbers,
CsiModeInputs ==
    {<<args, ims, FALSE, action>> :
        args \in {<<n>> : n \in 0..MaxModeNum} \cup SeqsUpTo(ModeVals, MaxModeArgs),
        ims \in {<<>>, <<"?">>, <<" ">>}, action \in {"h", "l"}}

\* m with every code, with short lists of codes and with extended colours.
CsiSgrInputs ==
    {<<args, <<>>, FALSE, "m">> :
        args \in {<<n>> : n \in 0..MaxSgrCode} \cup SeqsUpTo(SgrVals, MaxSgrLen)
                 \cup ExtendedSgrLists}

\* <<intermediates, ignore, byte>>: the recognizer raises the flag of an ESC
\* sequence only when an intermediate arrives with the buffer already full.
EscInputs ==
    {in \in EscIntermediates \X BOOLEAN \X EscFinals : in[2] => Len(in[1]) = 2}

\* Parts of an OSC string.
P_rgb2 == <<"r", "g", "b", ":", "1", "1", "/", "a", "a", "/", "f", "f">>
P_rgb1 == <<"r", "g", "b", ":", "1", "/", "a", "/", "f">>
P_hash == <<"#", "1", "1", "a", "a", "f", "f">>
P_rgbz == <<"r", "g", "b", ":", "z", "z", "/", "a", "a", "/", "f", "f">>
P_red == <<"r", "e", "d">>
P_shape1 == CursorShapePrefix \o <<"1">>
P_shape7 == CursorShapePrefix \o <<"7">>
P_shape0 == CursorShapePrefix \o <<"0">>
P_shape2 == CursorShapePrefix \o <<"2">>
P_shape1x == CursorShapePrefix \o <<"1", "2">>

OscCodes ==
    {<<>>, <<"0">>, <<"1">>, <<"2">>, <<"9">>, <<"1", "0">>, <<"1", "1">>,
     <<"1", "2">>, <<"5", "0">>, <<"5", "2">>, <<"1", "0", "4">>,
     <<"1", "1", "0">>, <<"1", "1", "1">>, <<"1", "1", "2">>}

OscData ==
    {<<>>, <<"h", "i">>, <<InvalidByte>>, <<"?">>, <<"c">>, <<"7">>,
     <<"3", "0", "0">>, P_rgb2, P_rgb1, P_hash, P_red,
     P_shape1, P_shape7, P_shape0, P_shape2, P_shape1x, CursorShapePrefix, B64_hi, B64_ff}

ColorIndexParts == {<<"1">>, <<"2", "5", "5">>, <<"2", "5", "6">>, <<"x">>}
ColorSpecParts == {P_rgb2, P_hash, P_rgb1, P_rgbz, P_red, <<>>}
ColorPairs == {<<i, c>> : i \in ColorIndexParts, c \in ColorSpecParts}

OscInputs ==
    {<<>>}
    \cup {<<code>> \o data : code \in OscCodes, data \in SeqsUpTo(OscData, MaxOscData)}
    \cup {<<<<"4">>>> \o pairs \o tail :
            pairs \in UNION {{<<>>}, ColorPairs,
                             {p \o q : p \in ColorPairs, q \in ColorPairs}},
            tail \in {<<>>, <<P_hash>>}}

(***************************************************************************)
(* Whether a dispatch runs to its end.  A slice index at or past the       *)
(* length of the slice panics, and so does u8 / usize arithmetic that      *)
(* leaves its range (overflow checks on).  Each operator follows the       *)
(* control flow of its function and is FALSE when such an operation is     *)
(* reached.  Indices are the 0-based ones of the source.                   *)
(***************************************************************************)
\* Variant: the RGB arm is guarded by the length test of the indexed arm.
parse_color_in_bounds_short_guard(attrs, i) ==
    IF Len(attrs) < 2 THEN TRUE
    ELSE IF ~(i + 1 < Len(attrs)) THEN FALSE
    ELSE CASE attrs[i + 2] = 2 ->
                IF Len(attrs) < 3 THEN TRUE
                ELSE \A idx \in {i + 2, i + 3, i + 4} : idx < Len(attrs)
           [] attrs[i + 2] = 5 ->
                IF Len(attrs) < 3 THEN TRUE
                ELSE i + 2 < Len(attrs)
           [] OTHER -> TRUE

\* parse_color: attrs[*i + 1], then attrs[*i + 2 .. *i + 4] or attrs[*i] with
\* *i moved on by 2.
parse_color_in_bounds(attrs, i) ==
    IF Len(attrs) < 2 THEN TRUE
    ELSE IF ~(i + 1 < Len(attrs)) THEN FALSE
    ELSE CASE attrs[i + 2] = 2 ->
                IF Len(attrs) < 5 THEN TRUE
                ELSE \A idx \in {i + 2, i + 3, i + 4} : idx < Len(attrs)
           [] attrs[i + 2] = 5 ->
                IF Len(attrs) < 3 THEN TRUE
                ELSE i + 2 < Len(attrs)
           [] OTHER -> TRUE

\* attrs_from_sgr_parameters: parameters[i] is read under i < len, and each
\* 38 / 48 calls parse_color on parameters[i..].
RECURSIVE attrs_from_sgr_in_bounds(_, _)
attrs_from_sgr_in_bounds(parameters, i) ==
    IF i >= Len(parameters) THEN TRUE
    ELSE IF parameters[i + 1] \in {38, 48}
    THEN LET rest == SubSeq(parameters, i + 1, Len(parameters))
             pc == parse_color(rest, 0)
         IN  /\ parse_color_in_bounds(rest, 0)
             /\ attrs_from_sgr_in_bounds(
                    parameters, IF pc.color # None THEN i + pc.i + 1 ELSE i + 1)
    ELSE attrs_from_sgr_in_bounds(parameters, i + 1)

\* csi_dispatch: the usize subtractions of G, `, H, f, d and r, and the SGR
\* decoding of m; no other arm indexes or subtracts.
csi_dispatch_completes(args, intermediates, has_ignored_intermediates, action) ==
    IF has_ignored_intermediates \/ Len(intermediates) > 1 THEN TRUE
    ELSE IF intermediates # <<>> THEN TRUE
    ELSE CASE action \in {"G", Grave, "d", "r"} -> arg_or_default(args, 0, 1) - 1 >= 0
           [] action \in {"H", "f"} ->
                /\ arg_or_default(args, 0, 1) - 1 >= 0
                /\ arg_or_default(args, 1, 1) - 1 >= 0
           [] action = "m" -> attrs_from_sgr_in_bounds(args, 0)
           [] OTHER -> TRUE

\* esc_dispatch: intermediates[0] is read under !intermediates.is_empty().
esc_dispatch_completes(intermediates, ignore, byte) ==
    IF byte = "8" /\ intermediates # <<>> THEN 0 < Len(intermediates) ELSE TRUE

\* osc_dispatch, b"4": chunk[0] and chunk[1] of every chunk of params[1..]
\* up to the first one that is set; k is the 1-based place of chunk[0].
RECURSIVE set_color_chunks_in_bounds(_, _)
set_color_chunks_in_bounds(params, k) ==
    IF k > Len(params) THEN TRUE
    ELSE IF k + 1 > Len(params) THEN FALSE
    ELSE IF parse_number(params[k]) # None /\ parse_rgb_color(params[k + 1]) # None
    THEN TRUE
    ELSE set_color_chunks_in_bounds(params, k + 2)

\* osc_dispatch, b"10" | b"11" | b"12": dynamic_code as usize - 10 and
\* dynamic_code += 1 on a u8, once per data part until the break.
RECURSIVE dynamic_color_in_range(_, _, _)
dynamic_color_in_range(params, k, dynamic_code) ==
    IF k > Len(params) THEN TRUE
    ELSE IF dynamic_code - 10 < 0 THEN FALSE
    ELSE IF NamedColor_Foreground + (dynamic_code - 10) > NamedColor_Cursor THEN TRUE
    ELSE IF dynamic_code + 1 > 255 THEN FALSE
    ELSE dynamic_color_in_range(params, k + 1, dynamic_code + 1)

osc_dispatch_completes(params) ==
    IF params = <<>> THEN TRUE
    ELSE IF params[1] = <<>> THEN TRUE
    ELSE
    LET code == params[1]
    IN
    CASE code = <<"4">> ->
            IF Len(params) > 1 /\ Len(params) % 2 # 0
            THEN set_color_chunks_in_bounds(params, 2)
            ELSE TRUE
      [] code \in {<<"1", "0">>, <<"1", "1">>, <<"1", "2">>} ->
            IF Len(params) >= 2 /\ parse_number(code) # None
            THEN dynamic_color_in_range(params, 2, parse_number(code)[1])
            ELSE TRUE
      [] code = <<"5", "0">> ->
            IF Len(params) >= 2 /\ Len(params[2]) >= 13
            THEN 12 <= Len(params[2]) /\ 12 < Len(params[2])
            ELSE TRUE
      [] code = <<"5", "2">> ->
            IF Len(params) < 3 THEN TRUE ELSE 2 < Len(params)
      [] OTHER -> TRUE

dispatch_completes(ev) ==
    CASE ev.kind = "csi" ->
            csi_dispatch_completes(ev.params, ev.intermediates, ev.ignore, ev.final)
      [] ev.kind = "esc" ->
            esc_dispatch_completes(ev.intermediates, ev.ignore, ev.final)
      [] ev.kind = "osc" -> osc_dispatch_completes(ev.osc)
      [] OTHER -> TRUE

(***************************************************************************)
(* vte::Parser, the byte classifier that Processor::advance hands every    *)
(* byte to.  Its code is not part of the sources; it is written from the   *)
(* description of the recognizer: the states, the transitions on CAN, SUB  *)
(* and ESC, the bounded buffers and the ignored flag.  Bytes are 7-bit:    *)
(* Ctl(n) is the C0 control n and Chr(c) the printable character c.        *)
(***************************************************************************)
MAX_INTERMEDIATES == 2
MAX_PARAMS == 16

NoByte == <<"none", 0>>
Ctl(n) == <<"ctl", n>>
Chr(c) == <<"chr", c>>

IntermediateChars ==
    {" ", "!", "\"", "#", "$", "%", "&", "'", "(", ")", "*", "+", ",", "-", ".", "/"}

NewParser ==
    [state |-> "Ground", params |-> <<>>, intermediates |-> <<>>,
     ignoring |-> FALSE, osc |-> <<>>]

\* The clear action: empty buffers, flag down.
Cleared(state) == [NewParser EXCEPT !.state = state]

\* Variant: the intermediate buffer grows without bound.
collect_uncapped(p, c) == [p EXCEPT !.intermediates = Append(@, c)]

\* The collect action: an intermediate past the cap raises the flag.
collect(p, c) ==
    IF Len(p.intermediates) >= MAX_INTERMEDIATES
    THEN [p EXCEPT !.ignoring = TRUE]
    ELSE [p EXCEPT !.intermediates = Append(@, c)]

\* The param action: a digit extends the last parameter, a separator opens
\* the next one; a parameter past the cap raises the flag.
param(p, c) ==
    IF c \in {";", ":"}
    THEN IF p.params = <<>> THEN [p EXCEPT !.params = <<0, 0>>]
         ELSE IF Len(p.params) >= MAX_PARAMS THEN [p EXCEPT !.ignoring = TRUE]
         ELSE [p EXCEPT !.params = Append(@, 0)]
    ELSE LET d == to_digit(c, 10)[1]
         IN  IF p.params = <<>> THEN [p EXCEPT !.params = <<d>>]
             ELSE [p EXCEPT !.params[Len(p.params)] = @ * 10 + d]

\* The osc_put action: a separator opens the next part.
osc_put(p, c) ==
    IF c = ";"
    THEN IF Len(p.osc) >= MAX_PARAMS THEN [p EXCEPT !.ignoring = TRUE]
         ELSE [p EXCEPT !.osc = Append(@, <<>>)]
    ELSE [p EXCEPT !.osc[Len(p.osc)] = Append(@, c)]

PrintEvent(c) == [NoEvent EXCEPT !.kind = "print", !.c = c]
ExecuteEvent(byte) == [NoEvent EXCEPT !.kind = "execute", !.byte = byte]
CsiEvent(p, c) ==
    [NoEvent EXCEPT !.kind = "csi", !.params = p.params,
                    !.intermediates = p.intermediates, !.ignore = p.ignoring,
                    !.final = c]
EscEvent(p, c) ==
    [NoEvent EXCEPT !.kind = "esc", !.intermediates = p.intermediates,
                    !.ignore = p.ignoring, !.final = c]
OscEvent(p) == [NoEvent EXCEPT !.kind = "osc", !.osc = p.osc]

Step(p, ev) == [parser |-> p, ev |-> ev]

\* One byte: the parser after it and the event it emits (NoEvent for none).
classify(p, b) ==
    IF b[1] = "ctl"
    THEN CASE b[2] \in {CAN, SUB} -> Step(NewParser, ExecuteEvent(b[2]))
           [] b[2] = ESC -> Step(Cleared("Escape"), NoEvent)
           [] OTHER ->
                IF p.state = "OscString"
                THEN IF b[2] = BEL THEN Step(NewParser, OscEvent(p))
                     ELSE Step(p, NoEvent)
                ELSE IF p.state \in {"DcsEntry", "SosPmApcString"}
                THEN Step(p, NoEvent)
                ELSE Step(p, ExecuteEvent(b[2]))
    ELSE
    LET c == b[2]
    IN
    CASE p.state = "Ground" -> Step(p, PrintEvent(c))
      [] p.state = "Escape" ->
            CASE c \in IntermediateChars ->
                    Step([collect(p, c) EXCEPT !.state = "EscapeIntermediate"], NoEvent)
              [] c = "[" -> Step(Cleared("CsiEntry"), NoEvent)
              [] c = "]" -> Step([Cleared("OscString") EXCEPT !.osc = << <<>> >>], NoEvent)
              [] c = "P" -> Step(Cleared("DcsEntry"), NoEvent)
              [] c \in {"X", "^", "_"} -> Step(Cleared("SosPmApcString"), NoEvent)
              [] OTHER -> Step(NewParser, EscEvent(p, c))
      [] p.state = "EscapeIntermediate" ->
            IF c \in IntermediateChars THEN Step(collect(p, c), NoEvent)
            ELSE Step(NewParser, EscEvent(p, c))
      [] p.state \in {"CsiEntry", "CsiParam"} ->
            CASE to_digit(c, 10) # None \/ c \in {";", ":"} ->
                    Step([param(p, c) EXCEPT !.state = "CsiParam"], NoEvent)
              [] c \in IntermediateChars ->
                    Step([collect(p, c) EXCEPT !.state = "CsiIntermediate"], NoEvent)
              [] c \in {"<", "=", ">", "?"} ->
                    IF p.state = "CsiEntry"
                    THEN Step([collect(p, c) EXCEPT !.state = "CsiParam"], NoEvent)
                    ELSE Step([p EXCEPT !.state = "CsiIgnore", !.ignoring = TRUE], NoEvent)
              [] OTHER -> Step(NewParser, CsiEvent(p, c))
      [] p.state = "CsiIntermediate" ->
            CASE c \in IntermediateChars -> Step(collect(p, c), NoEvent)
              [] c \in CsiFinals -> Step(NewParser, CsiEvent(p, c))
              [] OTHER -> Step([p EXCEPT !.state = "CsiIgnore", !.ignoring = TRUE], NoEvent)
      [] p.state = "CsiIgnore" ->
            IF c \in CsiFinals THEN Step(NewParser, CsiEvent(p, c))
            ELSE Step(p, NoEvent)
      [] p.state = "OscString" -> Step(osc_put(p, c), NoEvent)
      [] OTHER -> Step(p, NoEvent)

(***************************************************************************)
(* impl vte::Perform for Performer: the Handler calls of one event, for a  *)
(* Performer whose ProcessorState holds state_preceding_char, and the      *)
(* preceding_char it leaves.                                               *)
(***************************************************************************)
\* Variant: execute events reach no Handler method.
perform_execute_dropped(state_preceding_char, ev) ==
    CASE ev.kind = "print" -> print(ev.c)
      [] ev.kind = "csi" ->
            csi_dispatch_for(state_preceding_char, ev.params, ev.intermediates,
                             ev.ignore, ev.final)
      [] ev.kind = "esc" -> esc_dispatch(ev.intermediates, ev.ignore, ev.final)
      [] ev.kind = "osc" -> osc_dispatch(ev.osc)
      [] OTHER -> <<>>

perform(state_preceding_char, ev) ==
    CASE ev.kind = "print" -> print(ev.c)
      [] ev.kind = "execute" -> execute(ev.byte)
      [] ev.kind = "csi" ->
            csi_dispatch_for(state_preceding_char, ev.params, ev.intermediates,
                             ev.ignore, ev.final)
      [] ev.kind = "esc" -> esc_dispatch(ev.intermediates, ev.ignore, ev.final)
      [] ev.kind = "osc" -> osc_dispatch(ev.osc)
      [] OTHER -> <<>>

perform_state(state_preceding_char, ev) ==
    IF ev.kind = "print" THEN Some(ev.c) ELSE state_preceding_char

(***************************************************************************)
(* A second Processor for comparison.  It is created, as Processor::new()  *)
(* creates it, when a CAN or SUB cuts a sequence short, and is then fed    *)
(* every byte the first one is fed.  kept_char and kept_calls follow the   *)
(* same bytes for a Processor that starts in Ground with the               *)
(* preceding_char of the first one.                                        *)
(***************************************************************************)
NoShadow ==
    [live |-> FALSE, abort_now |-> FALSE, parser |-> NewParser,
     fresh_char |-> None, fresh_calls |-> <<>>,
     kept_char |-> None, kept_calls |-> <<>>]

shadow_start(state_preceding_char) ==
    [NoShadow EXCEPT !.live = TRUE, !.abort_now = TRUE,
                     !.kept_char = state_preceding_char]

shadow_advance(s, b) ==
    LET r == classify(s.parser, b)
    IN  [live |-> TRUE, abort_now |-> FALSE, parser |-> r.parser,
         fresh_char |-> perform_state(s.fresh_char, r.ev),
         fresh_calls |-> perform(s.fresh_char, r.ev),
         kept_char |-> perform_state(s.kept_char, r.ev),
         kept_calls |-> perform(s.kept_char, r.ev)]

(***************************************************************************)
(* display.rs.  Pixel sizes, the device pixel ratio and the font size are  *)
(* kept as integers; the sizes fed are such that every division the code   *)
(* makes is exact or is followed by floor().  A PhysicalSize is the pair   *)
(* <<width, height>>.                                                      *)
(***************************************************************************)
MaxPending == 2      \* resize events queued on the channel at one time

SizeVals == {<<80, 48>>, <<84, 48>>, <<120, 96>>}
DprVals == {1, 2}
FontSizeVals == {1, 2}
MessageVals == {None, Some(2)}    \* a message, by its number of lines
ConfigVals ==
    {[padding |-> <<0, 0>>, dynamic_padding |-> FALSE],
     [padding |-> <<2, 2>>, dynamic_padding |-> TRUE]}
DefaultConfig == [padding |-> <<0, 0>>, dynamic_padding |-> FALSE]

\* Display::compute_cell_size of the metrics of the font at a size and ratio.
compute_cell_size(font_size, dpr) == <<4 * font_size * dpr, 8 * font_size * dpr>>

\* SizeInfo::cols and SizeInfo::lines.
cols(size) == (size.width - 2 * size.padding_x) \div size.cell_width
size_lines(size) == (size.height - 2 * size.padding_y) \div size.cell_height

\* Message::text(&size).len()
message_lines(message) == IF message = None THEN 0 ELSE message[1]

\* The padding of Display::new and handle_resize.
padding(cfg, dpr, extent, cell, k) ==
    LET base == cfg.padding[k] * dpr
    IN  IF cfg.dynamic_padding
        THEN base + ((extent - 2 * base) % cell) \div 2
        ELSE base

\* The locals of handle_resize.  new_size is the event the loop ended with,
\* superseded the event it replaced last (history).
NoFrame ==
    [pc |-> "idle", previous_cols |-> 0, previous_lines |-> 0,
     new_size |-> None, superseded |-> None, outcome |-> "none"]

\* Display::new
InitDisplay(cfg) ==
    /\ config = cfg
    /\ window_dpr = 1
    /\ terminal = [font_size |-> 1, message |-> None]
    /\ display =
          LET cell == compute_cell_size(1, 1)
          IN  [font_size |-> 1,
               last_message |-> None,
               size_info |-> [dpr |-> 1, width |-> 80, height |-> 48,
                              cell_width |-> cell[1], cell_height |-> cell[2],
                              padding_x |-> padding(cfg, 1, 80, cell[1], 1),
                              padding_y |-> padding(cfg, 1, 48, cell[2], 2)]]
    /\ rx = <<>>
    /\ frame = NoFrame
    /\ resize_calls = <<>>
    /\ last_sent = None

ansi_vars ==
    <<preceding_char, event, calls, lines, io_error, advance_result,
      last_printed, color_in, color_out, number_in, number_out, byte_vars>>

\* The window sends a resize event on Display::resize_channel().
send_resize ==
    /\ Len(rx) < MaxPending
    /\ \E size \in SizeVals :
          /\ rx' = Append(rx, size)
          /\ last_sent' = Some(size)
    /\ UNCHANGED <<ansi_vars, named_vars, config, display, terminal, window_dpr, frame,
                   resize_calls>>

\* The terminal changes its font size or its message; handle_resize holds
\* the lock of the terminal while it runs.
change_terminal ==
    /\ frame.pc = "idle"
    /\ \E fs \in FontSizeVals, message \in MessageVals :
          /\ [font_size |-> fs, message |-> message] # terminal
          /\ terminal' = [font_size |-> fs, message |-> message]
    /\ UNCHANGED <<ansi_vars, named_vars, config, display, rx, window_dpr, frame,
                   resize_calls, last_sent>>

\* The window moves to a monitor with another pixel ratio.
change_dpr ==
    /\ \E dpr \in DprVals \ {window_dpr} : window_dpr' = dpr
    /\ UNCHANGED <<ansi_vars, named_vars, config, display, rx, terminal, frame,
                   resize_calls, last_sent>>

\* handle_resize is entered: previous_cols, previous_lines, new_size = None.
handle_resize_enter ==
    /\ frame.pc = "idle"
    /\ frame' = [pc |-> "recv",
                 previous_cols |-> cols(display.size_info),
                 previous_lines |-> size_lines(display.size_info),
                 new_size |-> None, superseded |-> None, outcome |-> "none"]
    /\ resize_calls' = <<>>
    /\ UNCHANGED <<ansi_vars, named_vars, config, display, rx, terminal, window_dpr, last_sent>>

\* Variant: the first event received is kept.
try_recv_keeps_first ==
    /\ frame.pc = "recv"
    /\ rx # <<>>
    /\ frame' = [frame EXCEPT !.new_size = IF @ = None THEN Some(Head(rx)) ELSE @]
    /\ rx' = Tail(rx)
    /\ UNCHANGED <<ansi_vars, named_vars, config, display, terminal, window_dpr,
                   resize_calls, last_sent>>

\* One turn of the loop while let Ok(size) = self.rx.try_recv().
try_recv ==
    /\ frame.pc = "recv"
    /\ rx # <<>>
    /\ frame' = [frame EXCEPT !.new_size = Some(Head(rx)),
                              !.superseded = frame.new_size]
    /\ rx' = Tail(rx)
    /\ UNCHANGED <<ansi_vars, named_vars, config, display, terminal, window_dpr,
                   resize_calls, last_sent>>

\* Font size or pixel ratio modification detected.
font_changed ==
    \/ terminal.font_size # display.font_size
    \/ window_dpr # display.size_info.dpr

message_bar_changed == display.last_message # terminal.message

\* Skip resize if nothing changed.
skips_resize ==
    /\ frame.new_size # None
    /\ ~font_changed
    /\ frame.new_size[1][1] = display.size_info.width
    /\ frame.new_size[1][2] = display.size_info.height

\* new_size after the forced resize of a font or message bar change.
forced_size ==
    IF (font_changed \/ message_bar_changed) /\ frame.new_size = None
    THEN Some(<<(display.size_info.width * window_dpr) \div display.size_info.dpr,
                (display.size_info.height * window_dpr) \div display.size_info.dpr>>)
    ELSE frame.new_size

\* The fields written under font_changed || message_bar_changed and by
\* update_glyph_cache.
refreshed_display ==
    LET d1 == IF font_changed \/ message_bar_changed
              THEN [display EXCEPT !.font_size = terminal.font_size,
                                   !.last_message = terminal.message,
                                   !.size_info.dpr = window_dpr]
              ELSE display
        cell == compute_cell_size(d1.font_size, d1.size_info.dpr)
    IN  IF font_changed
        THEN [d1 EXCEPT !.size_info.cell_width = cell[1],
                        !.size_info.cell_height = cell[2]]
        ELSE d1

\* size_info after if let Some(psize) = new_size.take().
resized_info(info, psize) ==
    [info EXCEPT !.width = psize[1],
                 !.height = psize[2],
                 !.padding_x = padding(config, window_dpr, psize[1], info.cell_width, 1),
                 !.padding_y = padding(config, window_dpr, psize[2], info.cell_height, 2)]

pty_size_of(size) ==
    [size EXCEPT !.height = @ - size.cell_height * message_lines(terminal.message)]

\* Variant: the pty is resized on every applied resize.
pty_on_resize_always(size) == << <<"pty_resize_handle.on_resize", pty_size_of(size)>> >>

pty_on_resize(size) ==
    IF \/ message_bar_changed
       \/ frame.previous_cols # cols(pty_size_of(size))
       \/ frame.previous_lines # size_lines(pty_size_of(size))
    THEN << <<"pty_resize_handle.on_resize", pty_size_of(size)>> >>
    ELSE <<>>

\* Variant: the message is recorded before the early return.
early_return_records_message == [display EXCEPT !.last_message = terminal.message]

early_return == display

\* The channel is empty: the loop ends and the rest of handle_resize runs.
handle_resize_rest ==
    /\ frame.pc = "recv"
    /\ rx = <<>>
    /\ IF skips_resize
       THEN /\ display' = early_return
            /\ resize_calls' = <<>>
            /\ frame' = [frame EXCEPT !.pc = "idle", !.outcome = "early"]
       ELSE IF forced_size = None
       THEN /\ display' = refreshed_display
            /\ resize_calls' = <<>>
            /\ frame' = [frame EXCEPT !.pc = "idle", !.outcome = "unchanged"]
       ELSE LET psize == forced_size[1]
                size == resized_info(refreshed_display.size_info, psize)
            IN  /\ display' = [refreshed_display EXCEPT !.size_info = size]
                /\ resize_calls' =
                      << <<"terminal.resize", size>>,
                         <<"processor_resize_handle.on_resize", size>> >>
                      \o pty_on_resize(size)
                      \o << <<"window.resize", psize>>,
                            <<"renderer.resize", psize, size.padding_x, size.padding_y>> >>
                /\ frame' = [frame EXCEPT !.pc = "idle", !.outcome = "applied"]
    /\ UNCHANGED <<ansi_vars, named_vars, config, rx, terminal, window_dpr, last_sent>>

InitResize ==
    /\ preceding_char = None
    /\ event = NoEvent
    /\ calls = <<>>
    /\ lines = 24
    /\ io_error = FALSE
    /\ advance_result = "unit"
    /\ last_printed = None
    /\ color_in = <<>>
    /\ color_out = None
    /\ number_in = <<>>
    /\ number_out = None
    /\ parser = NewParser
    /\ shadow = NoShadow
    /\ fed = 0
    /\ input_byte = NoByte
    /\ \E cfg \in ConfigVals : InitDisplay(cfg)
    /\ NoNamedColor

NextResize ==
    \/ send_resize
    \/ change_terminal
    \/ change_dpr
    \/ handle_resize_enter
    \/ try_recv
    \/ handle_resize_rest

SpecResize == InitResize /\ [][NextResize]_vars

(***************************************************************************)
(* NamedColor::to_bright and NamedColor::to_dim.  A NamedColor is the name *)
(* of its variant.                                                         *)
(***************************************************************************)
MaxColorOps == 3     \* calls of to_bright / to_dim made on one colour

NamedColors ==
    {"Black", "Red", "Green", "Yellow", "Blue", "Magenta", "Cyan", "White",
     "BrightBlack", "BrightRed", "BrightGreen", "BrightYellow", "BrightBlue",
     "BrightMagenta", "BrightCyan", "BrightWhite",
     "Foreground", "Background", "Cursor",
     "DimBlack", "DimRed", "DimGreen", "DimYellow", "DimBlue", "DimMagenta",
     "DimCyan", "DimWhite", "BrightForeground", "DimForeground"}

\* Variant: the dim colours are left as they are.
to_bright_dim_kept(self) ==
    CASE self = "Foreground" -> "BrightForeground"
      [] self = "Black" -> "BrightBlack"
      [] self = "Red" -> "BrightRed"
      [] self = "Green" -> "BrightGreen"
      [] self = "Yellow" -> "BrightYellow"
      [] self = "Blue" -> "BrightBlue"
      [] self = "Magenta" -> "BrightMagenta"
      [] self = "Cyan" -> "BrightCyan"
      [] self = "White" -> "BrightWhite"
      [] OTHER -> self

to_bright(self) ==
    CASE self = "Foreground" -> "BrightForeground"
      [] self = "Black" -> "BrightBlack"
      [] self = "Red" -> "BrightRed"
      [] self = "Green" -> "BrightGreen"
      [] self = "Yellow" -> "BrightYellow"
      [] self = "Blue" -> "BrightBlue"
      [] self = "Magenta" -> "BrightMagenta"
      [] self = "Cyan" -> "BrightCyan"
      [] self = "White" -> "BrightWhite"
      [] self = "DimForeground" -> "Foreground"
      [] self = "DimBlack" -> "Black"
      [] self = "DimRed" -> "Red"
      [] self = "DimGreen" -> "Green"
      [] self = "DimYellow" -> "Yellow"
      [] self = "DimBlue" -> "Blue"
      [] self = "DimMagenta" -> "Magenta"
      [] self = "DimCyan" -> "Cyan"
      [] self = "DimWhite" -> "White"
      [] OTHER -> self

to_dim(self) ==
    CASE self = "Black" -> "DimBlack"
      [] self = "Red" -> "DimRed"
      [] self = "Green" -> "DimGreen"
      [] self = "Yellow" -> "DimYellow"
      [] self = "Blue" -> "DimBlue"
      [] self = "Magenta" -> "DimMagenta"
      [] self = "Cyan" -> "DimCyan"
      [] self = "White" -> "DimWhite"
      [] self = "Foreground" -> "DimForeground"
      [] self = "BrightBlack" -> "Black"
      [] self = "BrightRed" -> "Red"
      [] self = "BrightGreen" -> "Green"
      [] self = "BrightYellow" -> "Yellow"
      [] self = "BrightBlue" -> "Blue"
      [] self = "BrightMagenta" -> "Magenta"
      [] self = "BrightCyan" -> "Cyan"
      [] self = "BrightWhite" -> "White"
      [] self = "BrightForeground" -> "Foreground"
      [] OTHER -> self

\* color.to_bright() on the colour the trail ends with.
call_to_bright ==
    /\ color_trail # <<>>
    /\ Len(color_ops) < MaxColorOps
    /\ color_trail' = Append(color_trail, to_bright(color_trail[Len(color_trail)]))
    /\ color_ops' = Append(color_ops, "to_bright")
    /\ UNCHANGED <<ansi_vars, display_vars>>

\* color.to_dim() on the colour the trail ends with.
call_to_dim ==
    /\ color_trail # <<>>
    /\ Len(color_ops) < MaxColorOps
    /\ color_trail' = Append(color_trail, to_dim(color_trail[Len(color_trail)]))
    /\ color_ops' = Append(color_ops, "to_dim")
    /\ UNCHANGED <<ansi_vars, display_vars>>

InitNamed ==
    /\ preceding_char = None
    /\ event = NoEvent
    /\ calls = <<>>
    /\ lines = 24
    /\ io_error = FALSE
    /\ advance_result = "unit"
    /\ last_printed = None
    /\ color_in = <<>>
    /\ color_out = None
    /\ number_in = <<>>
    /\ number_out = None
    /\ parser = NewParser
    /\ shadow = NoShadow
    /\ fed = 0
    /\ input_byte = NoByte
    /\ InitDisplay(DefaultConfig)
    /\ color_ops = <<>>
    /\ \E color \in NamedColors : color_trail = <<color>>

NextNamed ==
    \/ call_to_bright
    \/ call_to_dim

SpecNamed == InitNamed /\ [][NextNamed]_vars

Idle == event.kind = "none"

(***************************************************************************)
(* The part of every dispatching action that is the same: the Handler      *)
(* calls are recorded, a Handler that is handed the writer may see its     *)
(* write fail, and advance has no value to hand back (it returns unit).    *)
(***************************************************************************)
Deliver(ev, cs) ==
    /\ event' = ev
    /\ calls' = cs
    /\ \E fails \in (IF UsesWriter(cs) THEN BOOLEAN ELSE {FALSE}) :
          io_error' = fails
    /\ advance_result' = IF dispatch_completes(ev) THEN "unit" ELSE "panic"
    /\ UNCHANGED <<lines, color_in, color_out, number_in, number_out, byte_vars, display_vars, named_vars>>

advance_print ==
    /\ Idle
    /\ \E c \in Chars :
          /\ Deliver([NoEvent EXCEPT !.kind = "print", !.c = c], print(c))
          /\ preceding_char' = Some(c)
          /\ last_printed' = Some(c)

\* Variant: executing a control byte forgets the preceding character.
advance_execute_forgets_char ==
    /\ Idle
    /\ \E byte \in ExecBytes :
          Deliver([NoEvent EXCEPT !.kind = "execute", !.byte = byte], execute(byte))
    /\ preceding_char' = None
    /\ UNCHANGED last_printed

advance_execute ==
    /\ Idle
    /\ \E byte \in ExecBytes :
          Deliver([NoEvent EXCEPT !.kind = "execute", !.byte = byte], execute(byte))
    /\ UNCHANGED <<preceding_char, last_printed>>

csi_event(in) ==
    Deliver([NoEvent EXCEPT !.kind = "csi", !.params = in[1],
                            !.intermediates = in[2], !.ignore = in[3],
                            !.final = in[4]],
            csi_dispatch(in[1], in[2], in[3], in[4]))

advance_csi ==
    /\ Idle
    /\ \/ \E in \in CsiPlainInputs : csi_event(in)
       \/ \E in \in CsiMarkedInputs : csi_event(in)
       \/ \E in \in CsiModeInputs : csi_event(in)
       \/ \E in \in CsiSgrInputs : csi_event(in)
    /\ UNCHANGED <<preceding_char, last_printed>>

\* Variant: ESC c (reset_state) also clears the preceding character.
advance_esc_reset_forgets_char ==
    /\ Idle
    /\ \E in \in EscInputs :
          /\ Deliver([NoEvent EXCEPT !.kind = "esc", !.intermediates = in[1],
                                     !.ignore = in[2], !.final = in[3]],
                     esc_dispatch(in[1], in[2], in[3]))
          /\ preceding_char' = IF in[3] = "c" THEN None ELSE preceding_char
    /\ UNCHANGED last_printed

advance_esc ==
    /\ Idle
    /\ \E in \in EscInputs :
          Deliver([NoEvent EXCEPT !.kind = "esc", !.intermediates = in[1],
                                  !.ignore = in[2], !.final = in[3]],
                  esc_dispatch(in[1], in[2], in[3]))
    /\ UNCHANGED <<preceding_char, last_printed>>

advance_osc ==
    /\ Idle
    /\ \E params \in OscInputs :
          Deliver([NoEvent EXCEPT !.kind = "osc", !.osc = params],
                  osc_dispatch(params))
    /\ UNCHANGED <<preceding_char, last_printed>>

(***************************************************************************)
(* Processor::advance returns: the Performer is dropped.                   *)
(***************************************************************************)
advance_return ==
    /\ ~Idle
    /\ event' = NoEvent
    /\ calls' = <<>>
    /\ io_error' = FALSE
    /\ advance_result' = "unit"
    /\ UNCHANGED <<preceding_char, lines, last_printed, color_in, color_out,
                   number_in, number_out, byte_vars, display_vars, named_vars>>

Init ==
    /\ preceding_char = None
    /\ event = NoEvent
    /\ calls = <<>>
    /\ lines \in LinesVals
    /\ io_error = FALSE
    /\ advance_result = "unit"
    /\ last_printed = None
    /\ color_in = <<>>
    /\ color_out = None
    /\ number_in = <<>>
    /\ number_out = None
    /\ parser = NewParser
    /\ shadow = NoShadow
    /\ fed = 0
    /\ input_byte = NoByte
    /\ InitDisplay(DefaultConfig)
    /\ NoNamedColor

Next ==
    \/ advance_print
    \/ advance_execute
    \/ advance_csi
    \/ advance_esc
    \/ advance_osc
    \/ advance_return

Spec == Init /\ [][Next]_vars

(***************************************************************************)
(* parse_rgb_color called on its own: the colour spec is drawn when the    *)
(* specification starts and the call is made once.                         *)
(***************************************************************************)
HexDigits ==
    <<"0", "1", "2", "3", "4", "5", "6", "7", "8", "9", "a", "b", "c", "d", "e", "f">>

RgbPrefix == <<"r", "g", "b", ":">>
ChanVals == {0, 1, 10, 15, 17, 170, 255}
SmallChanVals == {v \in ChanVals : v < 16}

Hex2(v) == <<HexDigits[(v \div 16) + 1], HexDigits[(v % 16) + 1]>>
Hex1(v) == <<HexDigits[v + 1]>>

\* rgb:RR/GG/BB, rgb:R/G/B and #RRGGBB of the channels r, g, b.
FormatRgb2(r, g, b) == RgbPrefix \o Hex2(r) \o <<"/">> \o Hex2(g) \o <<"/">> \o Hex2(b)
FormatRgb1(r, g, b) == RgbPrefix \o Hex1(r) \o <<"/">> \o Hex1(g) \o <<"/">> \o Hex1(b)
FormatHash(r, g, b) == <<"#">> \o Hex2(r) \o Hex2(g) \o Hex2(b)

ChannelTexts == SeqsUpTo({"1", "a", "z"}, 2)

ColorInputs ==
    {FormatRgb2(r, g, b) : r \in ChanVals, g \in ChanVals, b \in ChanVals}
    \cup {FormatHash(r, g, b) : r \in ChanVals, g \in ChanVals, b \in ChanVals}
    \cup {FormatRgb1(r, g, b) : r \in SmallChanVals, g \in SmallChanVals, b \in SmallChanVals}
    \cup {RgbPrefix \o x \o <<"/">> \o y \o <<"/">> \o z :
            x \in ChannelTexts, y \in ChannelTexts, z \in ChannelTexts}
    \cup {<<"#">> \o t : t \in SeqsUpTo({"1", "z"}, MaxHashLen)}
    \cup {<<>>, P_red, RgbPrefix, RgbPrefix \o <<"1", "1">>,
          RgbPrefix \o <<"1", "1", "/", "a", "a">>}

call_parse_rgb_color ==
    /\ Idle
    /\ event' = [NoEvent EXCEPT !.kind = "parse_rgb_color"]
    /\ color_out' = parse_rgb_color(color_in)
    /\ UNCHANGED <<preceding_char, calls, lines, io_error, advance_result,
                   last_printed, color_in, number_in, number_out, byte_vars, display_vars, named_vars>>

InitRgb ==
    /\ preceding_char = None
    /\ event = NoEvent
    /\ calls = <<>>
    /\ lines = 24
    /\ io_error = FALSE
    /\ advance_result = "unit"
    /\ last_printed = None
    /\ color_in \in ColorInputs
    /\ color_out = None
    /\ number_in = <<>>
    /\ number_out = None
    /\ parser = NewParser
    /\ shadow = NoShadow
    /\ fed = 0
    /\ input_byte = NoByte
    /\ InitDisplay(DefaultConfig)
    /\ NoNamedColor

NextRgb == call_parse_rgb_color

SpecRgb == InitRgb /\ [][NextRgb]_vars

(***************************************************************************)
(* parse_number called on its own, in the same way.                        *)
(***************************************************************************)
NumberBytes == {"0", "1", "2", "3", "5", "6", "9", "a", "+"}

NumberInputs == SeqsUpTo(NumberBytes, MaxNumLen)

call_parse_number ==
    /\ Idle
    /\ event' = [NoEvent EXCEPT !.kind = "parse_number"]
    /\ number_out' = parse_number(number_in)
    /\ UNCHANGED <<preceding_char, calls, lines, io_error, advance_result,
                   last_printed, color_in, color_out, number_in, byte_vars, display_vars, named_vars>>

InitNum ==
    /\ preceding_char = None
    /\ event = NoEvent
    /\ calls = <<>>
    /\ lines = 24
    /\ io_error = FALSE
    /\ advance_result = "unit"
    /\ last_printed = None
    /\ color_in = <<>>
    /\ color_out = None
    /\ number_in \in NumberInputs
    /\ number_out = None
    /\ parser = NewParser
    /\ shadow = NoShadow
    /\ fed = 0
    /\ input_byte = NoByte
    /\ InitDisplay(DefaultConfig)
    /\ NoNamedColor

NextNum == call_parse_number

SpecNum == InitNum /\ [][NextNum]_vars

(***************************************************************************)
(* Processor::advance, byte by byte.                                       *)
(***************************************************************************)
ByteVals ==
    {Ctl(ESC), Ctl(CAN), Ctl(SUB), Ctl(BEL),
     Chr("A"), Chr("b"), Chr("["), Chr("]"), Chr("1"), Chr(";"), Chr("(")}

advance(b) ==
    LET r == classify(parser, b)
        aborts == /\ b[1] = "ctl"
                  /\ b[2] \in {CAN, SUB}
                  /\ parser.state # "Ground"
                  /\ ~shadow.live
    IN  /\ parser' = r.parser
        /\ event' = r.ev
        /\ calls' = perform(preceding_char, r.ev)
        /\ preceding_char' = perform_state(preceding_char, r.ev)
        /\ last_printed' = perform_state(last_printed, r.ev)
        /\ advance_result' = IF dispatch_completes(r.ev) THEN "unit" ELSE "panic"
        /\ shadow' = IF aborts THEN shadow_start(perform_state(preceding_char, r.ev))
                      ELSE IF shadow.live THEN shadow_advance(shadow, b)
                      ELSE shadow
        /\ fed' = fed + 1
        /\ input_byte' = b
        /\ UNCHANGED <<lines, io_error, color_in, color_out, number_in, number_out,
                       display_vars, named_vars>>

advance_byte ==
    /\ fed < MaxBytes
    /\ \E b \in ByteVals : advance(b)

InitBytes ==
    /\ preceding_char = None
    /\ event = NoEvent
    /\ calls = <<>>
    /\ lines = 24
    /\ io_error = FALSE
    /\ advance_result = "unit"
    /\ last_printed = None
    /\ color_in = <<>>
    /\ color_out = None
    /\ number_in = <<>>
    /\ number_out = None
    /\ parser = NewParser
    /\ shadow = NoShadow
    /\ fed = 0
    /\ input_byte = NoByte
    /\ InitDisplay(DefaultConfig)
    /\ NoNamedColor

NextBytes == advance_byte

\* Long streams of the bytes that fill the buffers.
CapByteVals == {Ctl(ESC), Chr("["), Chr(";"), Chr("("), Chr("m")}

advance_cap_byte ==
    /\ fed < MaxCapBytes
    /\ \E b \in CapByteVals : advance(b)

NextCaps == advance_cap_byte

SpecCaps == InitBytes /\ [][NextCaps]_vars

SpecBytes == InitBytes /\ [][NextBytes]_vars

(***************************************************************************)
(*                              PROPERTIES                                 *)
(***************************************************************************)
IsCsi(final) ==
    /\ event.kind = "csi"
    /\ event.final = final
    /\ ~event.ignore

HasCall(call) == \E k \in 1..Len(calls) : calls[k] = call

\* C1: once ESC c has been dispatched (Handler.reset_state was called),
\* preceding_char is empty, so that a CSI b that follows repeats nothing.
C1_ResetClearsPrecedingChar ==
    HasCall(<<"reset_state">>) => preceding_char = None

\* C2: CSI b without intermediates calls input(c) exactly n times, c being
\* the character printed last and n the first parameter (1 when that is
\* absent or zero); with no character printed so far it calls nothing.
C2_RepRepeatsLastPrinted ==
    (IsCsi("b") /\ event.intermediates = <<>>) =>
        LET n == IF event.params # <<>> /\ event.params[1] # 0
                 THEN event.params[1] ELSE 1
        IN  IF last_printed = None
            THEN calls = <<>>
            ELSE /\ Len(calls) = n
                 /\ \A k \in 1..n : calls[k] = <<"input", last_printed[1]>>

C2_Witness ==
    /\ IsCsi("b")
    /\ event.intermediates = <<>>
    /\ event.params = <<3>>
    /\ last_printed = Some("A")
    /\ calls = << <<"input", "A">>, <<"input", "A">>, <<"input", "A">> >>

\* The set_mode / unset_mode calls of the mode numbers of args that the
\* selected table knows, in order.
RECURSIVE KnownModeCalls(_, _, _, _)
KnownModeCalls(op, private, args, k) ==
    IF k > Len(args) THEN <<>>
    ELSE LET table == IF private THEN PrivateModes ELSE PublicModes
         IN  (IF args[k] \in DOMAIN table THEN << <<op, table[args[k]]>> >> ELSE <<>>)
             \o KnownModeCalls(op, private, args, k + 1)

\* C3: in an h or l sequence an unknown mode number is skipped and every
\* known mode number of the list, before and after it, yields its
\* set_mode / unset_mode call, in order.
C3_UnknownModeSkipped ==
    \A final \in {"h", "l"} :
        (IsCsi(final) /\ event.intermediates \in {<<>>, <<"?">>}) =>
            calls = KnownModeCalls(IF final = "h" THEN "set_mode" ELSE "unset_mode",
                                   event.intermediates = <<"?">>, event.params, 1)

\* The terminal_attribute calls of a list of SGR codes that read no
\* sub-parameters, unrecognized codes left out.
RECURSIVE SimpleAttrCalls(_, _)
SimpleAttrCalls(codes, k) ==
    IF k > Len(codes) THEN <<>>
    ELSE (IF codes[k] \in SimpleSgrCodes
          THEN << <<"terminal_attribute", sgr_simple(codes[k])>> >> ELSE <<>>)
         \o SimpleAttrCalls(codes, k + 1)

BadColorBody(body) ==
    \/ body[1] = 2 /\ \E k \in 2..4 : body[k] \notin 0..255
    \/ body[1] = 5 /\ body[2] \notin 0..255

\* C4: an SGR 38 / 48 colour with an out-of-range component emits no
\* attribute, its sub-parameters are consumed, and the SGR codes after
\* them in the same sequence are still delivered.
C4_BadColorDroppedRestDelivered ==
    (IsCsi("m") /\ event.intermediates = <<>>) =>
        \A pre \in SgrAround, post \in SgrAround, k \in {38, 48}, body \in ColorBodies :
            (BadColorBody(body) /\ event.params = pre \o <<k>> \o body \o post) =>
                calls = SimpleAttrCalls(pre, 1) \o SimpleAttrCalls(post, 1)

\* C5: an unrecognized SGR parameter causes no terminal_attribute call and
\* nothing else: the recognized codes before and after it are delivered as
\* if it were absent.
C5_UnrecognizedSgrSkipped ==
    (/\ IsCsi("m")
     /\ event.intermediates = <<>>
     /\ event.params # <<>>
     /\ \A k \in 1..Len(event.params) : event.params[k] \notin {38, 48}) =>
        calls = SimpleAttrCalls(event.params, 1)

IsOsc(code) ==
    /\ event.kind = "osc"
    /\ event.osc # <<>>
    /\ event.osc[1] = code

\* The j-th (index, colour) pair of the OSC 4 at hand.
PairCount == (Len(event.osc) - 1) \div 2
PairIndex(j) == parse_number(event.osc[2 * j])
PairColor(j) == parse_rgb_color(event.osc[2 * j + 1])
PairParses(j) == PairIndex(j) # None /\ PairColor(j) # None

\* C6: OSC 4 calls set_color once for each (index, colour) pair: k
\* parseable pairs give k set_color calls, in order.
C6_SetColorPerPair ==
    (/\ IsOsc(<<"4">>)
     /\ Len(event.osc) % 2 = 1
     /\ \A j \in 1..PairCount : PairParses(j)) =>
        /\ Len(calls) = PairCount
        /\ \A j \in 1..PairCount :
              calls[j] = <<"set_color", PairIndex(j)[1], PairColor(j)[1]>>

\* C7 as stated: OSC 4 calls set_color only when the part count is odd and
\* the first pair parses.
C7_OnlyWhenFirstPairParses ==
    (IsOsc(<<"4">>) /\ calls # <<>>) =>
        /\ Len(event.osc) % 2 = 1
        /\ PairParses(1)

\* C7, amended: OSC 4 calls set_color only when the part count is odd and
\* some pair parses; it makes one call, for the first pair that parses, and
\* none for any later pair.
C7_FirstParseablePairOnly ==
    IsOsc(<<"4">>) =>
        IF Len(event.osc) % 2 = 1 /\ \E j \in 1..PairCount : PairParses(j)
        THEN \E j \in 1..PairCount :
                /\ PairParses(j)
                /\ \A h \in 1..(j - 1) : ~PairParses(h)
                /\ calls = << <<"set_color", PairIndex(j)[1], PairColor(j)[1]>> >>
        ELSE calls = <<>>

C7_Witness ==
    /\ IsOsc(<<"4">>)
    /\ event.osc = << <<"4">>, <<"x">>, P_hash, <<"1">>, P_rgb2 >>
    /\ calls = << <<"set_color", 1, <<17, 170, 255>>>> >>

Parsed == event.kind = "parse_rgb_color"

\* C8: parse_rgb_color accepts rgb:RR/GG/BB, rgb:R/G/B and #RRGGBB and
\* returns the colour whose channels are the hex values written.
C8_AcceptsAllThreeForms ==
    Parsed =>
        \A r \in ChanVals, g \in ChanVals, b \in ChanVals :
            /\ color_in = FormatRgb2(r, g, b) => color_out = Some(<<r, g, b>>)
            /\ color_in = FormatHash(r, g, b) => color_out = Some(<<r, g, b>>)
            /\ (r < 16 /\ g < 16 /\ b < 16 /\ color_in = FormatRgb1(r, g, b)) =>
                    color_out = Some(<<r, g, b>>)

IsHexDigit(c) == c \in DOMAIN DigitValue

\* The two shapes of a colour spec: rgb: and three channels of one or two
\* hex digits separated by '/', or '#' and six hex digits.
WellFormed(color) ==
    \/ /\ Len(color) = 7
       /\ color[1] = "#"
       /\ \A k \in 2..7 : IsHexDigit(color[k])
    \/ \E l1 \in 1..2, l2 \in 1..2, l3 \in 1..2 :
          /\ Len(color) = 6 + l1 + l2 + l3
          /\ SubSeq(color, 1, 4) = RgbPrefix
          /\ color[5 + l1] = "/"
          /\ color[6 + l1 + l2] = "/"
          /\ \A k \in 5..Len(color) :
                k \notin {5 + l1, 6 + l1 + l2} => IsHexDigit(color[k])

\* C9: a colour spec that is not well formed (a non-hex character in a
\* channel, missing channel digits, a truncated '#' form) makes
\* parse_rgb_color return no colour.
C9_MalformedSpecRejected ==
    (Parsed /\ ~WellFormed(color_in)) => color_out = None

\* C10: an I/O error of the writer during a device response is returned to
\* the caller of advance as an error.
C10_WriterErrorReturned ==
    io_error => advance_result = "Err"

(***************************************************************************)
(* C11: an event delivered with ignored = true makes no Handler call, for  *)
(* esc_dispatch (an ESC sequence whose intermediates overflowed) as well   *)
(* as for csi_dispatch.                                                    *)
(***************************************************************************)
C11_IgnoredEventMakesNoCall ==
    (event.kind \in {"csi", "esc"} /\ event.ignore) => calls = <<>>

(***************************************************************************)
(* C12: a CSI sequence makes no Handler call and changes no parser state   *)
(* when its ignored flag is set, when it carries more than one             *)
(* intermediate byte, or when its (final, intermediate) pair is not one of *)
(* the recognized commands.                                                *)
(***************************************************************************)
RecognizedCsiPairs ==
    {<<final, <<>>>> :
        final \in {"@", "A", "B", "e", "C", "a", "D", "E", "F", "G", Grave,
                   "H", "f", "I", "J", "K", "L", "M", "P", "S", "T", "X", "Z",
                   "b", "c", "d", "g", "h", "l", "m", "n", "r", "s", "u"}}
    \cup {<<"h", <<"?">>>>, <<"l", <<"?">>>>, <<"q", <<" ">>>>}

CsiDiscarded(ev) ==
    /\ ev.kind = "csi"
    /\ \/ ev.ignore
       \/ Len(ev.intermediates) > 1
       \/ <<ev.final, ev.intermediates>> \notin RecognizedCsiPairs

C12_DiscardedCsiDoesNothing ==
    [][(Idle /\ CsiDiscarded(event'))
          => (calls' = <<>> /\ preceding_char' = preceding_char)]_vars

\* CSI 3 A with the ignored flag set, after a character was printed.
C12_Witness ==
    /\ event.kind = "csi"
    /\ event.ignore
    /\ event.final = "A"
    /\ event.intermediates = <<>>
    /\ event.params = <<3>>
    /\ preceding_char = Some("A")
    /\ calls = <<>>

(***************************************************************************)
(* C13: an ESC sequence produces a Handler call only for the exact         *)
(* (intermediates, final) pairs of the ESC table; any other pair,          *)
(* including a listed final such as D, E, H, M, Z, c, 7, = or > preceded   *)
(* by an intermediate byte, produces no Handler call.                      *)
(***************************************************************************)
EscTablePairs ==
    {<<<<g>>, final>> : g \in {"(", ")", "*", "+"}, final \in {"B", "0"}}
    \cup {<<<<>>, final>> :
            final \in {"D", "E", "H", "M", "Z", "c", "7", "8", "=", ">", "\\"}}
    \cup {<<<<"#">>, "8">>}

C13_OnlyEscTablePairsCall ==
    (event.kind = "esc" /\ ~event.ignore /\ calls # <<>>)
        => <<event.intermediates, event.final>> \in EscTablePairs

(***************************************************************************)
(* C14: preceding_char is set to c by every print(c) and is left unchanged *)
(* by execute of any control byte (CR, LF, BS, HT, BEL, SUB and the C1     *)
(* controls included).                                                     *)
(***************************************************************************)
C14_PrintSetsExecuteKeeps ==
    [][/\ (Idle /\ event'.kind = "print") => preceding_char' = Some(event'.c)
       /\ (Idle /\ event'.kind = "execute") => preceding_char' = preceding_char]_vars

\* SUB executed after z was printed.
C14_Witness ==
    /\ event.kind = "execute"
    /\ event.byte = SUB
    /\ preceding_char = Some("z")
    /\ last_printed = Some("z")

(***************************************************************************)
(* C15: for each of the CSI finals @, A, B/e, C/a, D, E, F, I, L, M, P, S, *)
(* T, X, Z with no intermediate, csi_dispatch makes exactly one call of    *)
(* the matching Handler operation with count n, where n is the first       *)
(* parameter if it is present and non-zero and 1 if it is absent or zero.  *)
(***************************************************************************)
CountedOperation ==
    [final \in {"@", "A", "B", "e", "C", "a", "D", "E", "F", "I", "L", "M",
                "P", "S", "T", "X", "Z"} |->
        CASE final = "@" -> "insert_blank"
          [] final = "A" -> "move_up"
          [] final \in {"B", "e"} -> "move_down"
          [] final \in {"C", "a"} -> "move_forward"
          [] final = "D" -> "move_backward"
          [] final = "E" -> "move_down_and_cr"
          [] final = "F" -> "move_up_and_cr"
          [] final = "I" -> "move_forward_tabs"
          [] final = "L" -> "insert_blank_lines"
          [] final = "M" -> "delete_lines"
          [] final = "P" -> "delete_chars"
          [] final = "S" -> "scroll_up"
          [] final = "T" -> "scroll_down"
          [] final = "X" -> "erase_chars"
          [] final = "Z" -> "move_backward_tabs"]

\* The i-th parameter (1-based) of the event, absent or zero replaced by 1.
OneBased(i) ==
    IF Len(event.params) >= i /\ event.params[i] # 0 THEN event.params[i] ELSE 1

C15_CountedCommands ==
    (/\ event.kind = "csi"
     /\ ~event.ignore
     /\ event.intermediates = <<>>
     /\ event.final \in DOMAIN CountedOperation)
        => calls = << <<CountedOperation[event.final], OneBased(1)>> >>

\* CSI 0;5 X: the zero first parameter counts as 1.
C15_Witness ==
    /\ IsCsi("X")
    /\ event.intermediates = <<>>
    /\ event.params = <<0, 5>>
    /\ calls = << <<"erase_chars", 1>> >>

(***************************************************************************)
(* C16: CSI H and CSI f call goto(Line(a0-1), Column(a1-1)) where a0 and   *)
(* a1 are the first and second parameters with absent or zero replaced by  *)
(* 1, so CSI H with no parameters calls goto(Line(0), Column(0)); CSI G    *)
(* and CSI ` call goto_col, and CSI d calls goto_line, with the same       *)
(* 1-based to 0-based conversion of the first parameter.                   *)
(***************************************************************************)
C16_AbsolutePositioning ==
    (/\ event.kind = "csi"
     /\ ~event.ignore
     /\ event.intermediates = <<>>)
        => /\ event.final \in {"H", "f"}
                => calls = << <<"goto", OneBased(1) - 1, OneBased(2) - 1>> >>
           /\ (event.final \in {"H", "f"} /\ event.params = <<>>)
                => calls = << <<"goto", 0, 0>> >>
           /\ event.final \in {"G", Grave}
                => calls = << <<"goto_col", OneBased(1) - 1>> >>
           /\ event.final = "d"
                => calls = << <<"goto_line", OneBased(1) - 1>> >>

\* CSI 0;3 f: row 1 by default, column 3.
C16_Witness ==
    /\ IsCsi("f")
    /\ event.intermediates = <<>>
    /\ event.params = <<0, 3>>
    /\ calls = << <<"goto", 0, 2>> >>

(***************************************************************************)
(* C17: CSI r calls set_scrolling_region(top..bottom) with top = (first    *)
(* parameter, absent or zero replaced by 1) - 1 and bottom = second        *)
(* parameter, where an absent or zero second parameter is replaced by the  *)
(* line count reported by TermInfo.lines().                                *)
(***************************************************************************)
C17_ScrollingRegion ==
    (IsCsi("r") /\ event.intermediates = <<>>)
        => LET top == OneBased(1) - 1
               bottom == IF Len(event.params) >= 2 /\ event.params[2] # 0
                         THEN event.params[2]
                         ELSE lines
           IN  calls = << <<"set_scrolling_region", top, bottom>> >>

\* CSI 2;0 r on a terminal of 200 lines.
C17_Witness ==
    /\ IsCsi("r")
    /\ event.intermediates = <<>>
    /\ event.params = <<2, 0>>
    /\ lines = 200
    /\ calls = << <<"set_scrolling_region", 1, 200>> >>

(***************************************************************************)
(* C18: CSI h (resp. l) calls set_mode (resp. unset_mode) once per         *)
(* parameter, in parameter order, using the private mode table exactly     *)
(* when the single intermediate is ? and the public table when there is    *)
(* none; public numbers are only 4 and 20, private numbers are only 1, 3,  *)
(* 6, 7, 12, 25, 1000, 1002, 1003, 1004, 1006, 1049, 2004, and a number    *)
(* valid in one table is not recognized in the other.                      *)
(***************************************************************************)
PublicModeTable == {<<4, "Insert">>, <<20, "LineFeedNewLine">>}

PrivateModeTable ==
    {<<1, "CursorKeys">>, <<3, "DECCOLM">>, <<6, "Origin">>, <<7, "LineWrap">>,
     <<12, "BlinkingCursor">>, <<25, "ShowCursor">>,
     <<1000, "ReportMouseClicks">>, <<1002, "ReportCellMouseMotion">>,
     <<1003, "ReportAllMouseMotion">>, <<1004, "ReportFocusInOut">>,
     <<1006, "SgrMouse">>, <<1049, "SwapScreenAndSetRestoreCursor">>,
     <<2004, "BracketedPaste">>}

RECURSIVE TableModeCalls(_, _, _, _)
TableModeCalls(table, op, args, k) ==
    IF k > Len(args) THEN <<>>
    ELSE LET hits == {e \in table : e[1] = args[k]}
         IN  (IF hits = {} THEN <<>>
              ELSE << <<op, (CHOOSE e \in hits : TRUE)[2]>> >>)
             \o TableModeCalls(table, op, args, k + 1)

C18_ModeTables ==
    (event.kind = "csi" /\ ~event.ignore /\ event.final \in {"h", "l"})
        => LET op == IF event.final = "h" THEN "set_mode" ELSE "unset_mode"
               table == IF event.intermediates = <<"?">>
                        THEN PrivateModeTable ELSE PublicModeTable
           IN  IF event.intermediates \notin {<<>>, <<"?">>} THEN calls = <<>>
               ELSE calls = TableModeCalls(table, op, event.params, 1)

(***************************************************************************)
(* C19: CSI m with an empty parameter list delivers exactly one            *)
(* terminal_attribute(Reset); with a list made only of recognized simple   *)
(* codes (0-9, 21-25, 27-29, 30-37, 39, 40-47, 49, 90-97, 100-107) it      *)
(* delivers one terminal_attribute call per parameter, in left-to-right    *)
(* order, each with the attribute the code table assigns to that code.     *)
(***************************************************************************)
StyleAttrs ==
    <<"Reset", "Bold", "Dim", "Italic", "Underscore", "BlinkSlow", "BlinkFast",
      "Reverse", "Hidden", "Strike">>

CancelAttrs ==
    <<"CancelBold", "CancelBoldDim", "CancelItalic", "CancelUnderline",
      "CancelBlink", "", "CancelReverse", "CancelHidden", "CancelStrike">>

EightColors ==
    <<"Black", "Red", "Green", "Yellow", "Blue", "Magenta", "Cyan", "White">>

BrightColors ==
    <<"BrightBlack", "BrightRed", "BrightGreen", "BrightYellow", "BrightBlue",
      "BrightMagenta", "BrightCyan", "BrightWhite">>

RecognizedSimpleCodes ==
    {code \in 0..107 :
        \/ code <= 9
        \/ code >= 21 /\ code <= 29 /\ code # 26
        \/ code >= 30 /\ code <= 37
        \/ code = 39
        \/ code >= 40 /\ code <= 47
        \/ code = 49
        \/ code >= 90 /\ code <= 97
        \/ code >= 100}

CodeTableAttr(code) ==
    IF code < 10 THEN <<StyleAttrs[code + 1]>>
    ELSE IF code < 30 THEN <<CancelAttrs[code - 20]>>
    ELSE IF code < 38 THEN <<"Foreground", <<"Named", EightColors[code - 29]>>>>
    ELSE IF code = 39 THEN <<"Foreground", <<"Named", "Foreground">>>>
    ELSE IF code < 48 THEN <<"Background", <<"Named", EightColors[code - 39]>>>>
    ELSE IF code = 49 THEN <<"Background", <<"Named", "Background">>>>
    ELSE IF code < 98 THEN <<"Foreground", <<"Named", BrightColors[code - 89]>>>>
    ELSE <<"Background", <<"Named", BrightColors[code - 99]>>>>

C19_SimpleSgr ==
    (IsCsi("m") /\ event.intermediates = <<>>)
        => /\ event.params = <<>>
                => calls = << <<"terminal_attribute", <<"Reset">>>> >>
           /\ (/\ event.params # <<>>
               /\ \A k \in 1..Len(event.params) :
                     event.params[k] \in RecognizedSimpleCodes)
                => /\ Len(calls) = Len(event.params)
                   /\ \A k \in 1..Len(calls) :
                         calls[k] = <<"terminal_attribute",
                                      CodeTableAttr(event.params[k])>>

\* CSI 1;0;5 m: Bold, Reset, BlinkSlow in that order.
C19_Witness ==
    /\ IsCsi("m")
    /\ event.params = <<1, 0, 5>>
    /\ calls = << <<"terminal_attribute", <<"Bold">>>>,
                  <<"terminal_attribute", <<"Reset">>>>,
                  <<"terminal_attribute", <<"BlinkSlow">>>> >>

(***************************************************************************)
(* C20: in an SGR list, 38 (resp. 48) followed by 2,r,g,b with r,g,b in    *)
(* 0..=255 yields exactly one Foreground (resp. Background) Spec(r,g,b)    *)
(* attribute, and followed by 5,n with n in 0..=255 yields exactly one     *)
(* Indexed(n) attribute; the colour consumes exactly its 4 (resp. 2)       *)
(* sub-parameters, so the next SGR code decoded is the parameter right     *)
(* after them and none of the sub-parameters is decoded as an SGR code of  *)
(* its own.                                                                *)
(***************************************************************************)
\* The number of sub-parameters of the well-formed colour that follows the
\* 38 / 48 at position j of the list p, and 0 when there is none.
SubParamCount(p, j) ==
    IF Len(p) >= j + 4 /\ p[j + 1] = 2
       /\ \A k \in (j + 2)..(j + 4) : p[k] >= 0 /\ p[k] <= 255
    THEN 4
    ELSE IF Len(p) >= j + 2 /\ p[j + 1] = 5 /\ p[j + 2] >= 0 /\ p[j + 2] <= 255
    THEN 2
    ELSE 0

ExtendedColor(p, j) ==
    IF p[j + 1] = 2 THEN <<"Spec", p[j + 2], p[j + 3], p[j + 4]>>
    ELSE <<"Indexed", p[j + 2]>>

CodeTableCalls(codes) ==
    [k \in 1..Len(codes) |-> <<"terminal_attribute", CodeTableAttr(codes[k])>>]

C20_ExtendedColor ==
    (IsCsi("m") /\ event.intermediates = <<>>)
        => \A j \in 1..Len(event.params) :
              LET p == event.params
                  n == SubParamCount(p, j)
              IN  (/\ p[j] \in {38, 48}
                   /\ n > 0
                   /\ \A k \in 1..(j - 1) : p[k] \in RecognizedSimpleCodes
                   /\ \A k \in (j + n + 1)..Len(p) : p[k] \in RecognizedSimpleCodes)
                      => calls =
                            CodeTableCalls(SubSeq(p, 1, j - 1))
                            \o << <<"terminal_attribute",
                                    <<IF p[j] = 38 THEN "Foreground" ELSE "Background",
                                      ExtendedColor(p, j)>>>> >>
                            \o CodeTableCalls(SubSeq(p, j + n + 1, Len(p)))

\* CSI 1;48;2;0;128;255;4 m: Bold, Background Spec(0, 128, 255), Underscore.
C20_Witness ==
    /\ IsCsi("m")
    /\ event.params = <<1, 48, 2, 0, 128, 255, 4>>
    /\ calls = << <<"terminal_attribute", <<"Bold">>>>,
                  <<"terminal_attribute", <<"Background", <<"Spec", 0, 128, 255>>>>>>,
                  <<"terminal_attribute", <<"Underscore">>>> >>

(***************************************************************************)
(* C21: parse_number returns the value v exactly when its input is         *)
(* non-empty, consists only of ASCII decimal digits and denotes a value    *)
(* v <= 255 (leading zeros allowed); for an empty input, any non-digit     *)
(* byte, or a value above 255 it returns none, and it never wraps around.  *)
(***************************************************************************)
DecimalDigits == <<"0", "1", "2", "3", "4", "5", "6", "7", "8", "9">>

IsDecimalDigit(c) == \E d \in 1..10 : DecimalDigits[d] = c

DecimalDigitValue(c) == (CHOOSE d \in 1..10 : DecimalDigits[d] = c) - 1

\* The number that the first n bytes of a digit string denote.
RECURSIVE DecimalValue(_, _)
DecimalValue(text, n) ==
    IF n = 0 THEN 0
    ELSE DecimalValue(text, n - 1) * 10 + DecimalDigitValue(text[n])

C21_ParseNumber ==
    event.kind = "parse_number"
        => LET digits == \A k \in 1..Len(number_in) : IsDecimalDigit(number_in[k])
           IN  IF /\ number_in # <<>>
                  /\ digits
                  /\ DecimalValue(number_in, Len(number_in)) <= 255
               THEN number_out = Some(DecimalValue(number_in, Len(number_in)))
               ELSE number_out = None

\* "256" is one above the largest u8 and is refused.
C21_Witness ==
    /\ event.kind = "parse_number"
    /\ number_in = <<"2", "5", "6">>
    /\ number_out = None

(***************************************************************************)
(* C22: no input is fatal to the dispatcher: for every parameter list of   *)
(* non-negative integers, every intermediate list and every list of OSC    *)
(* parts, csi_dispatch, esc_dispatch and osc_dispatch complete without an  *)
(* out-of-bounds index (SGR sub-parameter reads in parse_color, OSC 4 pair *)
(* chunks, the OSC 50 CursorShape= slice) and without arithmetic overflow  *)
(* (the OSC 10/11/12 dynamic code increment and offset).                   *)
(***************************************************************************)
C22_NoFatalInput ==
    event.kind \in {"csi", "esc", "osc"} => advance_result # "panic"

\* CSI 38;2;0 m: an RGB colour cut short after its first component.
C22_Witness ==
    /\ IsCsi("m")
    /\ event.params = <<38, 2, 0>>
    /\ advance_result = "unit"
    /\ calls = <<>>

(***************************************************************************)
(* C23: a CAN (0x18) or SUB (0x1A) byte received while a sequence is in    *)
(* progress aborts only that sequence: no dispatch is made for it, SUB     *)
(* additionally yields a substitute call, and the Handler calls produced   *)
(* by the bytes after the abort are identical to those the same tail       *)
(* produces when fed to a parser that starts fresh in Ground.              *)
(***************************************************************************)
AbortMakesNoDispatch ==
    shadow.abort_now
        => /\ event.kind = "execute"
           /\ parser = NewParser
           /\ calls = IF event.byte = SUB THEN << <<"substitute">> >> ELSE <<>>

BuffersWithinCaps ==
    /\ Len(parser.params) <= 16
    /\ Len(parser.intermediates) <= 2

\* The byte in input_byte' would be a third intermediate or a seventeenth
\* parameter.
ByteExceedsCap ==
    /\ input_byte'[1] = "chr"
    /\ \/ /\ parser.state \in {"EscapeIntermediate", "CsiIntermediate"}
          /\ input_byte'[2] \in {"(", " ", "#", "*"}
          /\ Len(parser.intermediates) = 2
       \/ /\ parser.state = "CsiParam"
          /\ input_byte'[2] = ";"
          /\ Len(parser.params) = 16

\* The byte in input_byte' ends a sequence whose flag is up.
TerminatorOfIgnored ==
    /\ parser.ignoring
    /\ input_byte'[1] = "chr"
    /\ \/ parser.state = "EscapeIntermediate" /\ input_byte'[2] \in {"m", "["}
       \/ parser.state \in {"CsiParam", "CsiIntermediate"} /\ input_byte'[2] \in {"m", "["}

C24_BoundedBuffers ==
    /\ []BuffersWithinCaps
    /\ [][ByteExceedsCap
            => /\ parser'.ignoring
               /\ parser'.params = parser.params
               /\ parser'.intermediates = parser.intermediates
               /\ event'.kind = "none"]_vars
    /\ [][TerminatorOfIgnored
            => /\ event'.kind \in {"csi", "esc"}
               /\ event'.ignore
               /\ event'.final = input_byte'[2]
               /\ event'.params = parser.params
               /\ event'.intermediates = parser.intermediates
               /\ ~parser'.ignoring
               /\ parser'.state = "Ground"]_vars

\* CSI with seventeen separators, then m: sixteen parameters, flag up.
C24_Witness ==
    /\ event.kind = "csi"
    /\ event.final = "m"
    /\ event.ignore
    /\ Len(event.params) = 16
    /\ calls = <<>>

(***************************************************************************)
(* C25: execute(byte) makes exactly one Handler call for the listed        *)
(* control bytes (HT -> put_tab(1), BS -> backspace, CR ->                 *)
(* carriage_return, LF/VT/FF -> linefeed, BEL -> bell, SUB -> substitute,  *)
(* SI -> set_active_charset(G0), SO -> set_active_charset(G1), NEL ->      *)
(* newline, HTS -> set_horizontal_tabstop, DECID -> identify_terminal)     *)
(* and no Handler call for any other byte.                                 *)
(***************************************************************************)
ControlByteTable ==
    {<<9, <<"put_tab", 1>> >>, <<8, <<"backspace">> >>,
     <<13, <<"carriage_return">> >>,
     <<10, <<"linefeed">> >>, <<11, <<"linefeed">> >>, <<12, <<"linefeed">> >>,
     <<7, <<"bell">> >>, <<26, <<"substitute">> >>,
     <<15, <<"set_active_charset", "G0">> >>,
     <<14, <<"set_active_charset", "G1">> >>,
     <<133, <<"newline">> >>, <<136, <<"set_horizontal_tabstop">> >>,
     <<154, <<"identify_terminal">> >>}

C25_ExecuteTable ==
    event.kind = "execute"
        => IF \E row \in ControlByteTable : row[1] = event.byte
           THEN /\ Len(calls) = 1
                /\ <<event.byte, calls[1]>> \in ControlByteTable
           ELSE calls = <<>>

C25_Witness ==
    /\ event.kind = "execute"
    /\ event.byte = 11
    /\ calls = << <<"linefeed">> >>

(***************************************************************************)
(* C26: an ESC sequence with final B (resp. 0) calls                       *)
(* configure_charset(Gn, Ascii) (resp. the special character and line      *)
(* drawing set) where the first intermediate '(' , ')', '*', '+' selects   *)
(* G0, G1, G2, G3; with no intermediate or any other first intermediate    *)
(* it makes no Handler call; a following SO byte then calls                *)
(* set_active_charset(G1).                                                 *)
(***************************************************************************)
CharsetSlotTable == {<<"(", "G0">>, <<")", "G1">>, <<"*", "G2">>, <<"+", "G3">>}

CharsetOfFinal(final) ==
    IF final = "B" THEN "Ascii" ELSE "SpecialCharacterAndLineDrawing"

IsCharsetEsc == event.kind = "esc" /\ event.final \in {"B", "0"}

C26_ConfigureCharset ==
    /\ IsCharsetEsc =>
          IF /\ event.intermediates # <<>>
             /\ \E row \in CharsetSlotTable : row[1] = event.intermediates[1]
          THEN /\ Len(calls) = 1
               /\ calls[1][1] = "configure_charset"
               /\ <<event.intermediates[1], calls[1][2]>> \in CharsetSlotTable
               /\ calls[1][3] = CharsetOfFinal(event.final)
          ELSE calls = <<>>
    /\ (event.kind = "execute" /\ event.byte = 14)
            => calls = << <<"set_active_charset", "G1">> >>

\* ESC ) 0 with a second intermediate: G1 takes the line drawing set.
C26_Witness ==
    /\ IsCharsetEsc
    /\ event.final = "0"
    /\ event.intermediates = <<")", "(">>
    /\ calls = << <<"configure_charset", "G1", "SpecialCharacterAndLineDrawing">> >>

(***************************************************************************)
(* C27: ESC E produces linefeed followed by carriage_return, in that order *)
(* and nothing else; ESC 8 produces restore_cursor_position unless its     *)
(* first intermediate is '#', in which case it produces dectest only.      *)
(***************************************************************************)
FirstIntermediateIsHash ==
    Len(event.intermediates) >= 1 /\ event.intermediates[1] = "#"

C27_NextLineAndRestore ==
    /\ (event.kind = "esc" /\ event.final = "E")
          => calls = << <<"linefeed">>, <<"carriage_return">> >>
    /\ (event.kind = "esc" /\ event.final = "8")
          => calls = IF FirstIntermediateIsHash
                     THEN << <<"dectest">> >>
                     ELSE << <<"restore_cursor_position">> >>

\* ESC ( # 8: '#' is not the first intermediate, the cursor is restored.
C27_Witness ==
    /\ event.kind = "esc"
    /\ event.final = "8"
    /\ event.intermediates = <<"(", "#">>
    /\ calls = << <<"restore_cursor_position">> >>

(***************************************************************************)
(* C28: CSI J calls clear_screen with 0 or absent -> Below, 1 -> Above,    *)
(* 2 -> All, 3 -> Saved; CSI K calls clear_line with 0 or absent -> Right, *)
(* 1 -> Left, 2 -> All; CSI g calls clear_tabs with 0 or absent ->         *)
(* Current, 3 -> All; any other first parameter value produces no Handler  *)
(* call.                                                                   *)
(***************************************************************************)
FirstParamOrZero == IF event.params = <<>> THEN 0 ELSE event.params[1]

ClearTable ==
    {<<"J", 0, <<"clear_screen", "Below">> >>,
     <<"J", 1, <<"clear_screen", "Above">> >>,
     <<"J", 2, <<"clear_screen", "All">> >>,
     <<"J", 3, <<"clear_screen", "Saved">> >>,
     <<"K", 0, <<"clear_line", "Right">> >>,
     <<"K", 1, <<"clear_line", "Left">> >>,
     <<"K", 2, <<"clear_line", "All">> >>,
     <<"g", 0, <<"clear_tabs", "Current">> >>,
     <<"g", 3, <<"clear_tabs", "All">> >>}

IsPlainCsi(final) == IsCsi(final) /\ event.intermediates = <<>>

C28_ClearModes ==
    \A final \in {"J", "K", "g"} :
        IsPlainCsi(final) =>
            IF \E row \in ClearTable : row[1] = final /\ row[2] = FirstParamOrZero
            THEN /\ Len(calls) = 1
                 /\ <<final, FirstParamOrZero, calls[1]>> \in ClearTable
            ELSE calls = <<>>

\* CSI 3 J clears the saved lines.
C28_Witness ==
    /\ IsPlainCsi("J")
    /\ event.params = <<3>>
    /\ calls = << <<"clear_screen", "Saved">> >>

(***************************************************************************)
(* C29: CSI q calls set_cursor_style only when its single intermediate is  *)
(* a space: 0 or absent -> None, 1 or 2 -> Block, 3 or 4 -> Underline,     *)
(* 5 or 6 -> Beam; any other value, and CSI q without the space            *)
(* intermediate, produces no Handler call.                                 *)
(***************************************************************************)
CursorStyleTable ==
    {<<0, None>>, <<1, Some("Block")>>, <<2, Some("Block")>>,
     <<3, Some("Underline")>>, <<4, Some("Underline")>>,
     <<5, Some("Beam")>>, <<6, Some("Beam")>>}

C29_CursorStyle ==
    IsCsi("q") =>
        IF /\ event.intermediates = <<" ">>
           /\ \E row \in CursorStyleTable : row[1] = FirstParamOrZero
        THEN /\ Len(calls) = 1
             /\ calls[1][1] = "set_cursor_style"
             /\ <<FirstParamOrZero, calls[1][2]>> \in CursorStyleTable
        ELSE calls = <<>>

\* CSI 4 SP q: an underline cursor.
C29_Witness ==
    /\ IsCsi("q")
    /\ event.intermediates = <<" ">>
    /\ event.params = <<4>>
    /\ calls = << <<"set_cursor_style", Some("Underline")>> >>

(***************************************************************************)
(* C30: OSC 0 and OSC 2 with at least two parts whose second part is valid *)
(* UTF-8 call set_title exactly once with that part; with a missing or     *)
(* non-UTF-8 second part they make no Handler call; OSC 1 never makes a    *)
(* Handler call.                                                           *)
(***************************************************************************)
ValidUtf8(part) == \A k \in 1..Len(part) : part[k] # "0xFF"

C30_SetTitle ==
    /\ (IsOsc(<<"0">>) \/ IsOsc(<<"2">>))
          => IF Len(event.osc) >= 2 /\ ValidUtf8(event.osc[2])
             THEN calls = << <<"set_title", event.osc[2]>> >>
             ELSE calls = <<>>
    /\ IsOsc(<<"1">>) => calls = <<>>

\* OSC 2 ; hi ; <0xFF>: the title is the second part, the third is not read.
C30_Witness ==
    /\ IsOsc(<<"2">>)
    /\ Len(event.osc) = 3
    /\ event.osc[2] = <<"h", "i">>
    /\ event.osc[3] = <<"0xFF">>
    /\ calls = << <<"set_title", <<"h", "i">> >> >>

(***************************************************************************)
(* C31: for OSC code c in {10, 11, 12}, the k-th data part (k = 0, 1, ...) *)
(* targets colour index 256 + (c - 10) + k with dynamic code c + k: a      *)
(* parseable colour spec calls set_color(index, colour), the part '?'      *)
(* calls dynamic_color_sequence(writer, c + k, index), any other part      *)
(* makes no call but still advances k; processing stops at the first part  *)
(* whose index would exceed the Cursor index (258).                        *)
(***************************************************************************)
DynamicCodes == {<<10, <<"1", "0">> >>, <<11, <<"1", "1">> >>, <<12, <<"1", "2">> >>}

\* The call of the k-th data part alone, as a sequence of zero or one call.
DynamicPartCall(c, k) ==
    LET part == event.osc[k + 2]
        index == 256 + (c - 10) + k
        colour == parse_rgb_color(part)
    IN  IF colour # None THEN << <<"set_color", index, colour[1]>> >>
        ELSE IF part = <<"?">> THEN << <<"dynamic_color_sequence", c + k, index>> >>
        ELSE <<>>

RECURSIVE DynamicCallsFrom(_, _)
DynamicCallsFrom(c, k) ==
    IF k + 2 > Len(event.osc) \/ 256 + (c - 10) + k > 258 THEN <<>>
    ELSE DynamicPartCall(c, k) \o DynamicCallsFrom(c, k + 1)

C31_DynamicColors ==
    \A row \in DynamicCodes :
        IsOsc(row[2]) => calls = DynamicCallsFrom(row[1], 0)

\* OSC 10 ; x ; ? : the first part is skipped, the second asks for the
\* background with code 11.
C31_Witness ==
    /\ IsOsc(<<"1", "0">>)
    /\ event.osc = << <<"1", "0">>, <<"h", "i">>, <<"?">> >>
    /\ calls = << <<"dynamic_color_sequence", 11, 257>> >>

(***************************************************************************)
(* C32: OSC 104 with no further parts calls reset_color for every index    *)
(* 0..=255 in ascending order; with further parts it calls reset_color     *)
(* once for each part that parses as a number in 0..=255, in order, and a  *)
(* part that does not parse is skipped without stopping the processing of  *)
(* the later parts.                                                        *)
(***************************************************************************)
IsColorNumber(part) ==
    /\ part # <<>>
    /\ \A k \in 1..Len(part) : IsDecimalDigit(part[k])
    /\ DecimalValue(part, Len(part)) <= 255

\* The reset_color calls of the parts k.. of the event.
RECURSIVE ResetCallsFrom(_)
ResetCallsFrom(k) ==
    IF k > Len(event.osc) THEN <<>>
    ELSE (IF IsColorNumber(event.osc[k])
          THEN << <<"reset_color", DecimalValue(event.osc[k], Len(event.osc[k]))>> >>
          ELSE <<>>) \o ResetCallsFrom(k + 1)

C32_ResetColors ==
    IsOsc(<<"1", "0", "4">>) =>
        IF Len(event.osc) = 1
        THEN /\ Len(calls) = 256
             /\ \A i \in 0..255 : calls[i + 1] = <<"reset_color", i>>
        ELSE calls = ResetCallsFrom(2)

\* OSC 104 ; 300 ; 7: 300 is not an index, 7 is still reset.
C32_Witness ==
    /\ IsOsc(<<"1", "0", "4">>)
    /\ event.osc = << <<"1", "0", "4">>, <<"3", "0", "0">>, <<"7">> >>
    /\ calls = << <<"reset_color", 7>> >>

(***************************************************************************)
(* C33: OSC 50 calls set_cursor_style exactly when its second part starts  *)
(* with 'CursorShape=' followed by at least one more byte N, with          *)
(* N = '0' -> Block, '1' -> Beam, '2' -> Underline; for any other N, a     *)
(* shorter part or a different prefix it makes no Handler call.            *)
(***************************************************************************)
ShapeKeyword == <<"C", "u", "r", "s", "o", "r", "S", "h", "a", "p", "e", "=">>

ShapeTable == {<<"0", "Block">>, <<"1", "Beam">>, <<"2", "Underline">>}

HasShapeKeyword(part) ==
    /\ Len(part) > Len(ShapeKeyword)
    /\ \A k \in 1..Len(ShapeKeyword) : part[k] = ShapeKeyword[k]

C33_CursorShape ==
    IsOsc(<<"5", "0">>) =>
        IF /\ Len(event.osc) >= 2
           /\ HasShapeKeyword(event.osc[2])
           /\ \E row \in ShapeTable : row[1] = event.osc[2][Len(ShapeKeyword) + 1]
        THEN /\ Len(calls) = 1
             /\ calls[1][1] = "set_cursor_style"
             /\ calls[1][2] # <<>>
             /\ <<event.osc[2][Len(ShapeKeyword) + 1], calls[1][2][1]>> \in ShapeTable
        ELSE calls = <<>>

\* OSC 50 ; CursorShape=12: the byte after '=' decides, a beam cursor.
C33_Witness ==
    /\ IsOsc(<<"5", "0">>)
    /\ Len(event.osc) = 2
    /\ Len(event.osc[2]) = 14
    /\ calls = << <<"set_cursor_style", <<"Beam">> >> >>

(***************************************************************************)
(* C34: OSC 52 calls set_clipboard exactly once when it has at least three *)
(* parts and the third part is valid base64 that decodes to valid UTF-8;   *)
(* with fewer than three parts, a third part equal to '?', invalid base64  *)
(* or non-UTF-8 decoded bytes it makes no Handler call.                    *)
(***************************************************************************)
\* Base64 texts among the parts fed, with the bytes they encode.
Base64Texts ==
    {<< <<>>, <<>> >>,
     << <<"a", "G", "k", "=">>, <<"h", "i">> >>,
     << <<"/", "w", "=", "=">>, <<"0xFF">> >>}

C34_SetClipboard ==
    IsOsc(<<"5", "2">>) =>
        IF /\ Len(event.osc) >= 3
           /\ \E row \in Base64Texts : row[1] = event.osc[3] /\ ValidUtf8(row[2])
        THEN /\ Len(calls) = 1
             /\ calls[1][1] = "set_clipboard"
             /\ <<event.osc[3], calls[1][2]>> \in Base64Texts
        ELSE calls = <<>>

\* OSC 52 ; c ; aGk= sets the clipboard to "hi".
C34_Witness ==
    /\ IsOsc(<<"5", "2">>)
    /\ event.osc = << <<"5", "2">>, <<"c">>, <<"a", "G", "k", "=">> >>
    /\ calls = << <<"set_clipboard", <<"h", "i">> >> >>

(***************************************************************************)
(* C35: for every non-negative parameter value, the 1-based to 0-based     *)
(* conversions in CSI G/`, H/f, d and r (parameter - 1) never underflow,   *)
(* because a zero or absent parameter is replaced by 1 before the          *)
(* subtraction.                                                            *)
(***************************************************************************)
IsZeroBasedCsi ==
    /\ event.kind = "csi"
    /\ ~event.ignore
    /\ event.intermediates = <<>>
    /\ event.final \in {"G", "0x60", "H", "f", "d", "r"}

C35_NoUnderflow ==
    IsZeroBasedCsi =>
        /\ advance_result = "unit"
        /\ Len(calls) = 1
        /\ calls[1][2] \in Nat
        /\ event.final \in {"H", "f"} => calls[1][3] \in Nat

\* CSI 0 d and CSI d: line 0, no underflow.
C35_Witness ==
    /\ IsZeroBasedCsi
    /\ event.final = "d"
    /\ event.params \in {<<>>, <<0>>}
    /\ calls = << <<"goto_line", 0>> >>
    /\ advance_result = "unit"

(***************************************************************************)
(* C36: REP does not change preceding_char, and preceding_char survives    *)
(* every event other than print: after print(c), any sequence of execute,  *)
(* CSI, ESC and OSC events followed by CSI n b yields n input(c) calls,    *)
(* and a second CSI b right after repeats the same c again.                *)
(***************************************************************************)
IsRep == IsCsi("b") /\ event.intermediates = <<>>

RepCount ==
    IF event.params = <<>> \/ event.params[1] = 0 THEN 1 ELSE event.params[1]

C36_RepeatSurvives ==
    /\ preceding_char = last_printed
    /\ (IsRep /\ last_printed # <<>>)
          => /\ Len(calls) = RepCount
             /\ \A k \in 1..Len(calls) : calls[k] = <<"input", last_printed[1]>>

\* CSI 3 b while the last character printed is z.
C36_Witness ==
    /\ IsRep
    /\ event.params = <<3>>
    /\ last_printed = <<"z">>
    /\ calls = << <<"input", "z">>, <<"input", "z">>, <<"input", "z">> >>

(***************************************************************************)
(* C37: handle_resize drains every resize event pending on the channel and *)
(* acts only on the most recent one: per call, terminal.resize,            *)
(* processor_resize_handle.on_resize, window.resize and renderer.resize    *)
(* are each invoked at most once, in that relative order, with the size of *)
(* the last event queued.                                                  *)
(***************************************************************************)
\* The step that ends a call of handle_resize.
ResizeReturns == frame.pc = "recv" /\ frame'.pc = "idle"

\* The places of the calls of one name in a sequence of calls.
CallPlaces(log, name) == {k \in 1..Len(log) : log[k][1] = name}

OrderedResizeNames ==
    <<"terminal.resize", "processor_resize_handle.on_resize",
      "window.resize", "renderer.resize">>

C37_CoalescedResize ==
    [][ResizeReturns =>
        /\ rx = <<>> /\ rx' = <<>>
        /\ \A i \in 1..4 :
              Cardinality(CallPlaces(resize_calls', OrderedResizeNames[i])) <= 1
        /\ \A i \in 1..3 :
              \A k \in CallPlaces(resize_calls', OrderedResizeNames[i]) :
                 \A h \in CallPlaces(resize_calls', OrderedResizeNames[i + 1]) : k < h
        /\ frame.new_size # <<>> =>
              /\ frame.new_size = last_sent
              /\ \A k \in 1..Len(resize_calls') :
                    LET call == resize_calls'[k]
                    IN  /\ call[1] \in {"window.resize", "renderer.resize"}
                            => call[2] = last_sent[1]
                        /\ call[1] \in {"terminal.resize",
                                        "processor_resize_handle.on_resize"}
                            => <<call[2].width, call[2].height>> = last_sent[1]]_vars

\* Two events were queued: 84 x 48 was dropped, 120 x 96 was applied.
C37_Witness ==
    /\ frame.pc = "idle"
    /\ frame.superseded = << <<84, 48>> >>
    /\ last_sent = << <<120, 96>> >>
    /\ Len(resize_calls) >= 4
    /\ \E k \in 1..Len(resize_calls) :
          resize_calls[k] = <<"window.resize", <<120, 96>> >>

(***************************************************************************)
(* C38: in handle_resize, pty_resize_handle.on_resize is called only when  *)
(* a resize is applied and either the message bar changed or the           *)
(* column/line count of the pty size (height reduced by the message bar    *)
(* lines) differs from the column/line count before the call;              *)
(* processor_resize_handle.on_resize is called on every applied resize.    *)
(***************************************************************************)
HasCallOf(log, name) == CallPlaces(log, name) # {}

\* Columns and lines of a size whose height is reduced by bar_lines cells.
GridOf(size, bar_lines) ==
    <<(size.width - 2 * size.padding_x) \div size.cell_width,
      (size.height - size.cell_height * bar_lines - 2 * size.padding_y)
          \div size.cell_height>>

BarLines == IF terminal.message = <<>> THEN 0 ELSE terminal.message[1]

C38_PtyResizeOnlyOnChange ==
    [][ResizeReturns =>
        /\ HasCallOf(resize_calls', "pty_resize_handle.on_resize") =>
              /\ HasCallOf(resize_calls', "terminal.resize")
              /\ \/ display.last_message # terminal.message
                 \/ GridOf(display'.size_info, BarLines) # GridOf(display.size_info, 0)
        /\ HasCallOf(resize_calls', "processor_resize_handle.on_resize")
              <=> HasCallOf(resize_calls', "terminal.resize")]_vars

\* A resize by a few pixels that keeps the grid: applied, the pty is left alone.
C38_Witness ==
    /\ frame.pc = "idle"
    /\ HasCallOf(resize_calls, "processor_resize_handle.on_resize")
    /\ ~HasCallOf(resize_calls, "pty_resize_handle.on_resize")
    /\ frame.new_size = << <<84, 48>> >>

(***************************************************************************)
(* C39: a message-bar change is never lost by handle_resize: when a call   *)
(* returns early because the pending resize event carries an unchanged     *)
(* size and the font did not change, last_message, font_size and size_info *)
(* are left unmodified, so the change is still detected and applied (with  *)
(* a forced resize and a pty on_resize) by the next call that has no such  *)
(* pending event.                                                          *)
(***************************************************************************)
FontUnchanged ==
    /\ terminal.font_size = display.font_size
    /\ window_dpr = display.size_info.dpr

PendingSizeUnchanged ==
    /\ frame.new_size # <<>>
    /\ frame.new_size[1] = <<display.size_info.width, display.size_info.height>>

C39_MessageBarChangeKept ==
    [][ResizeReturns =>
        /\ (PendingSizeUnchanged /\ FontUnchanged) =>
              /\ display' = display
              /\ resize_calls' = <<>>
        /\ (~(PendingSizeUnchanged /\ FontUnchanged)
              /\ display.last_message # terminal.message) =>
              /\ display'.last_message = terminal.message
              /\ HasCallOf(resize_calls', "terminal.resize")
              /\ HasCallOf(resize_calls', "pty_resize_handle.on_resize")
        /\ (frame.new_size = <<>> /\ FontUnchanged
              /\ display.last_message # terminal.message) =>
              \E k \in 1..Len(resize_calls') :
                 resize_calls'[k] =
                    <<"window.resize",
                      <<display.size_info.width, display.size_info.height>> >>]_vars

\* An early return while the terminal shows a message the display has not
\* recorded yet.
C39_Witness ==
    /\ frame.pc = "idle"
    /\ frame.outcome = "early"
    /\ display.last_message = <<>>
    /\ terminal.message = <<2>>
    /\ resize_calls = <<>>


(***************************************************************************)
(* C40: NamedColor::to_bright and to_dim are inverse on the normal         *)
(* colours: for each of Black..White and Foreground,                       *)
(* to_bright(to_dim(c)) = c and to_dim(to_bright(c)) = c; to_bright is the *)
(* identity on the bright colours, to_dim is the identity on the dim       *)
(* colours, and both are the identity on Background and Cursor.            *)
(***************************************************************************)
NormalColors ==
    {"Black", "Red", "Green", "Yellow", "Blue", "Magenta", "Cyan", "White",
     "Foreground"}

BrightVariants ==
    {"BrightBlack", "BrightRed", "BrightGreen", "BrightYellow", "BrightBlue",
     "BrightMagenta", "BrightCyan", "BrightWhite", "BrightForeground"}

DimVariants ==
    {"DimBlack", "DimRed", "DimGreen", "DimYellow", "DimBlue", "DimMagenta",
     "DimCyan", "DimWhite", "DimForeground"}

\* The k-th and the next call are the methods first and second, in that order.
CalledInTurn(k, first, second) ==
    /\ color_ops[k] = first
    /\ color_ops[k + 1] = second

C40_BrightDimInverse ==
    /\ \A k \in 1..(Len(color_ops) - 1) :
          (/\ color_trail[k] \in NormalColors
           /\ \/ CalledInTurn(k, "to_dim", "to_bright")
              \/ CalledInTurn(k, "to_bright", "to_dim"))
             => /\ color_trail[k + 1] # color_trail[k]
                /\ color_trail[k + 2] = color_trail[k]
    /\ \A k \in 1..Len(color_ops) :
          /\ (color_ops[k] = "to_bright"
                /\ color_trail[k] \in BrightVariants \cup {"Background", "Cursor"})
             => color_trail[k + 1] = color_trail[k]
          /\ (color_ops[k] = "to_dim"
                /\ color_trail[k] \in DimVariants \cup {"Background", "Cursor"})
             => color_trail[k + 1] = color_trail[k]

\* Red was dimmed and brightened again, and then brightened once more.
C40_Witness ==
    /\ color_ops = <<"to_dim", "to_bright", "to_bright">>
    /\ color_trail = <<"Red", "DimRed", "Red", "BrightRed">>

====
